---- MODULE Spec2Model ----
(***************************************************************************)
(* College election site: the election lifecycle and vote-integrity engine *)
(* (models/Election.js, the teacher/student/public-voting controllers in   *)
(* controllers/electionController.js and the admin controller in           *)
(* config/mailer.js).                                                      *)
(*                                                                         *)
(* Every request handler is a process that runs from one `await` to the    *)
(* next in one step; other requests interleave at the awaits.  A handler   *)
(* holds the election document it loaded (doc) and the image of it that    *)
(* the database is known to hold (base).  Mongoose's save() writes the     *)
(* difference only: $set for each changed scalar path, $push for the       *)
(* elements appended to an array.                                          *)
(***************************************************************************)
EXTENDS Integers, Sequences, FiniteSets, TLC

\* ---------------------------------------------------------------- bounds
MaxTime == 3
MaxOps == 3
MaxVotes == 3
MaxClock == 25

\* ----------------------------------------------------------- identifiers
Procs == {1, 2}
ElectionIds == {"e1", "e2"}
ClassIds == {"k1", "k2"}
Teachers == {"t1", "t2"}
Students == {"s1", "s2", "s3"}
CandidateIds == {"c1", "c2"}
RollNumbers == {"r1", "r2"}
Statuses == {"pending", "active", "completed", "cancelled"}

NoDate == 0
NoText == ""
NoCandidate == "none"
NoToken == ""
Dates == 1..MaxTime

\* The class registry and the identity store (not changed by the handlers below).
ClassTeacherOf(k) == IF k = "k1" THEN "t1" ELSE "t2"
ClassOfStudent(s) == "k1"

VARIABLES
  now,            \* the server clock (new Date())
  elections,      \* the Election collection: id -> document
  candidateDocs,  \* the Candidate collection: id -> document
  reqs,           \* the request being handled by each process
  started,        \* number of requests started so far
  last,           \* the response sent last: the handler, its outcome, the audit entries it wrote
  appended,       \* history: for each ledger entry written, the stored status and clock
                  \* at the write; for each token issued or used, the request and clock
  users,          \* the User collection: id -> document
  classes         \* the Class collection: id -> document

vars == <<now, elections, candidateDocs, reqs, started, last, appended, users, classes>>

\* ------------------------------------------------------- Election document
\* new Election({...}): the schema defaults of models/Election.js.
NewElection(title, description, cls, start, end, teacher) ==
  [ title |-> title, description |-> description, cls |-> cls,
    startDate |-> start, endDate |-> end, status |-> "pending",
    createdBy |-> teacher, candidates |-> <<>>,
    accessToken |-> NoToken, isEnabled |-> TRUE, qrData |-> NoText,
    allowAnonymousVoting |-> TRUE, requireRollNumber |-> TRUE,
    votingTimeSlots |-> <<>>,
    anonymousVotes |-> <<>>, votes |-> <<>>,
    published |-> FALSE, publishedAt |-> NoDate, winner |-> NoCandidate,
    v |-> 0 ]   \* the version key __v

ArrayPaths == {"candidates", "votingTimeSlots", "anonymousVotes", "votes"}

\* A handler that pushes nothing.
PushedNone(doc, base, f) == <<>>

\* Elements a handler pushed on an array path since it loaded or last saved.
Pushed(doc, base, f) == SubSeq(doc[f], Len(base[f]) + 1, Len(doc[f]))

\* A save that writes the handler's whole document over the stored one.
SaveWhole(stored, doc, base) == doc

\* document.save(): what the collection holds after the handler's changes
\* are written over the stored document; a push increments the version key.
SaveDelta(stored, doc, base) ==
  [ f \in DOMAIN stored |->
      IF f \in ArrayPaths THEN stored[f] \o Pushed(doc, base, f)
      ELSE IF f = "v"
        THEN IF \E g \in ArrayPaths : Pushed(doc, base, g) # <<>>
               THEN stored.v + 1 ELSE stored.v
      ELSE IF doc[f] # base[f] THEN doc[f]
      ELSE stored[f] ]

\* The isActive virtual.
isActive(doc, t) ==
  doc.startDate <= t /\ t <= doc.endDate /\ doc.status = "active"

\* The hasVoted method; "" stands for a null argument.
hasVoted(doc, studentId, rollNumber) ==
  \/ /\ studentId # ""
     /\ \E i \in 1..Len(doc.votes) : doc.votes[i].student = studentId
  \/ /\ rollNumber # ""
     /\ \E i \in 1..Len(doc.anonymousVotes) : doc.anonymousVotes[i].rollNumber = rollNumber

\* The isVotingAllowed method.
isVotingAllowed(doc, t) ==
  IF ~isActive(doc, t) THEN FALSE
  ELSE IF ~doc.allowAnonymousVoting THEN FALSE
  ELSE IF Len(doc.votingTimeSlots) > 0
    THEN \E i \in 1..Len(doc.votingTimeSlots) :
           LET slot == doc.votingTimeSlots[i]
           IN  slot.isActive /\ t >= slot.startTime /\ t <= slot.endTime
  ELSE TRUE

\* ------------------------------------------------------- calculateResults
\* The voteCount object: its keys in insertion order, and the count per key.
EmptyCount == [keys |-> <<>>, n |-> [c \in {} |-> 0]]

RECURSIVE CountVotes(_, _, _)
CountVotes(ledger, i, acc) ==
  IF i > Len(ledger) THEN acc
  ELSE LET c == ledger[i].candidate
       IN  IF c \in DOMAIN acc.n
             THEN CountVotes(ledger, i + 1,
                             [acc EXCEPT !.n = [acc.n EXCEPT ![c] = @ + 1]])
             ELSE CountVotes(ledger, i + 1,
                             [keys |-> Append(acc.keys, c), n |-> acc.n @@ (c :> 1)])

\* A tally that also reads the anonymous ledger.
TalliedLedgerBoth(doc) == doc.votes \o doc.anonymousVotes

\* Which ledger calculateResults tallies.
TalliedLedger(doc) == doc.votes

\* The Object.entries loop: the running maximum and its candidate.
RECURSIVE FindWinner(_, _, _)
FindWinner(vc, i, best) ==
  IF i > Len(vc.keys) THEN best
  ELSE LET c == vc.keys[i]
       IN  IF vc.n[c] > best.maxVotes
             THEN FindWinner(vc, i + 1, [winnerId |-> c, maxVotes |-> vc.n[c]])
             ELSE FindWinner(vc, i + 1, best)

\* The value calculateResults returns.
CalcReturn(doc) ==
  LET vc == CountVotes(TalliedLedger(doc), 1, EmptyCount)
      w  == FindWinner(vc, 1, [winnerId |-> NoCandidate, maxVotes |-> 0])
  IN  [ totalVotes |-> Len(doc.votes), voteCounts |-> vc.n,
        winnerId |-> w.winnerId, maxVotes |-> w.maxVotes ]

\* A calculateResults that completes the election whether or not it found a winner.
CalcDocAlways(doc, t) ==
  [doc EXCEPT !.winner = CalcReturn(doc).winnerId, !.published = TRUE,
              !.publishedAt = t, !.status = "completed"]

\* The document after calculateResults set the winner (if any).
CalcDoc(doc, t) ==
  LET w == CalcReturn(doc).winnerId
  IN  IF w # NoCandidate
        THEN [doc EXCEPT !.winner = w, !.published = TRUE,
                         !.publishedAt = t, !.status = "completed"]
        ELSE doc

\* ------------------------------------------------------------- requests
NullDoc == NewElection(NoText, NoText, "", NoDate, NoDate, "")

\* A process that handles no request.
Blank ==
  [ op |-> "idle", pc |-> "idle", eid |-> "", user |-> "",
    cand |-> "", roll |-> "", cls |-> "", student |-> "", symbol |-> "",
    start |-> NoDate, end |-> NoDate, t |-> NoDate,
    token |-> NoToken,
    doc |-> NullDoc, base |-> NullDoc,
    ret |-> <<>>,    \* what calculateResults returned, once it was called
    logged |-> <<>> ]  \* the audit entries written for the request so far

\* A new request is taken by the first idle process.
Free(p) ==
  /\ reqs[p].pc = "idle"
  /\ \A q \in Procs : q < p => reqs[q].pc # "idle"
  /\ started < MaxOps

\* The action enum of the SystemLog schema.
LogActions ==
  { "user_login", "user_logout", "user_register", "user_verify", "password_reset",
    "election_create", "election_update", "election_delete", "candidate_create",
    "candidate_approve", "candidate_reject", "vote_cast", "result_publish",
    "backup_create", "system_error", "admin_action", "teacher_action" }

\* SystemLog.createLog: the entry written (its action), none if the schema
\* refuses it; the failure is swallowed.
createLog(action) == IF action \in LogActions THEN <<action>> ELSE <<>>

\* An audit entry with details: the action, then the values of the details.
createLogDetails(action, details) ==
  IF action \in LogActions THEN <<action>> \o details ELSE <<>>

\* The logActivity middleware: the entry holds the method, the path and, for
\* a POST, the request body.
logActivity(action, method, path, body) ==
  createLogDetails(action, <<method, path>> \o (IF method = "POST" THEN body ELSE <<>>))

\* The response of handler op, and the audit entries written for the request.
Response(op, result, logged) == [op |-> op, result |-> result, logged |-> logged]

Reject(op, result) == [op |-> op, pc |-> "done", result |-> result]

\* A new request either goes on as rq in process p or ends at once.
Begin(p, rq) ==
  IF rq.pc = "done"
    THEN reqs' = reqs /\ last' = Response(rq.op, rq.result, <<>>)
    ELSE reqs' = [reqs EXCEPT ![p] = rq] /\ UNCHANGED last

\* Process p goes on as rq or sends its response.
Continue(p, rq) ==
  IF rq.pc = "done"
    THEN reqs' = [reqs EXCEPT ![p] = Blank]
         /\ last' = Response(rq.op, rq.result, reqs[p].logged)
    ELSE reqs' = [reqs EXCEPT ![p] = rq] /\ UNCHANGED last

\* Process p has written the audit entries and sends its response.
FinishWith(p, result, entries) ==
  /\ reqs' = [reqs EXCEPT ![p] = Blank]
  /\ last' = Response(reqs[p].op, result, reqs[p].logged \o entries)

\* Process p writes its audit entry and sends its response.
Finish(p, result, action) == FinishWith(p, result, createLog(action))

\* Candidate.findOne({_id, election, approved: true, active: true}).
CandidateOfElection(c, e) ==
  /\ c \in DOMAIN candidateDocs
  /\ candidateDocs[c].election = e
  /\ candidateDocs[c].approved
  /\ candidateDocs[c].active

\* What the database held, and the clock, when a ledger entry was written.
Stamp(e, ledger) ==
  [ eid |-> e, ledger |-> ledger, status |-> elections[e].status,
    inWindow |-> elections[e].startDate <= now /\ now <= elections[e].endDate ]

Tick ==
  /\ now < MaxTime
  /\ now' = now + 1
  /\ UNCHANGED <<users, classes, elections, candidateDocs, reqs, started, last, appended>>

\* --------------------------------------------------------------- castVote
\* The student's request up to `await Candidate.findOne`: Election.findOne
\* with the class and status filter, the time window, hasVoted.
CastVoteChecks(s, e, c) ==
  LET found == /\ e \in DOMAIN elections
               /\ elections[e].cls = ClassOfStudent(s)
               /\ elections[e].status = "active"
  IN  IF ~found THEN Reject("castVote", "notFound")
      ELSE IF now < elections[e].startDate \/ now > elections[e].endDate
        THEN Reject("castVote", "notActive")
      ELSE IF hasVoted(elections[e], s, "")
        THEN Reject("castVote", "alreadyVoted")
      ELSE [Blank EXCEPT !.op = "castVote", !.pc = "findCandidate",
                         !.eid = e, !.user = s, !.cand = c,
                         !.doc = elections[e], !.base = elections[e]]

CastVoteFind(p, s, e, c) ==
  /\ Free(p)
  /\ started' = started + 1
  /\ Begin(p, CastVoteChecks(s, e, c))
  /\ UNCHANGED <<users, classes, now, elections, candidateDocs, appended>>

\* Candidate.findOne resolved: reject, or push the vote on the loaded document.
CastVoteCandidate(p) ==
  /\ reqs[p].op = "castVote" /\ reqs[p].pc = "findCandidate"
  /\ LET r == reqs[p]
     IN  Continue(p,
           IF ~CandidateOfElection(r.cand, r.eid)
             THEN Reject("castVote", "invalidCandidate")
             ELSE [r EXCEPT !.pc = "save",
                     !.doc.votes = Append(@, [student |-> r.user, candidate |-> r.cand])])
  /\ UNCHANGED <<users, classes, now, elections, candidateDocs, started, appended>>

\* election.save() of castVote, the audit entry, the success response.
CastVoteSave(p) ==
  /\ reqs[p].op = "castVote" /\ reqs[p].pc = "save"
  /\ LET r == reqs[p]
     IN  /\ r.eid \in DOMAIN elections
         /\ elections' = [elections EXCEPT ![r.eid] = SaveDelta(@, r.doc, r.base)]
         /\ appended' = appended \cup {Stamp(r.eid, "votes")}
  /\ FinishWith(p, "voted",
                createLogDetails("vote_cast", <<reqs[p].eid, reqs[p].doc.title>>))
  /\ UNCHANGED <<users, classes, now, candidateDocs, started>>

\* ------------------------------------------------------------ vote route
\* POST /elections/:id/vote: the logActivity('vote_cast') middleware writes
\* its entry, then hands the request to castVote.
LogActivityVote(p, s, e, c) ==
  /\ Free(p)
  /\ started' = started + 1
  /\ reqs' = [reqs EXCEPT ![p] =
               [Blank EXCEPT !.op = "castVote", !.pc = "next",
                             !.eid = e, !.user = s, !.cand = c,
                             !.logged = logActivity("vote_cast", "POST", e, <<c>>)]]
  /\ UNCHANGED <<users, classes, now, elections, candidateDocs, last, appended>>

\* castVote after the middleware, up to `await Candidate.findOne`.
CastVoteNext(p) ==
  /\ reqs[p].op = "castVote" /\ reqs[p].pc = "next"
  /\ LET r == reqs[p]
         rq == CastVoteChecks(r.user, r.eid, r.cand)
     IN  Continue(p, IF rq.pc = "done" THEN rq ELSE [rq EXCEPT !.logged = r.logged])
  /\ UNCHANGED <<users, classes, now, elections, candidateDocs, started, appended>>

\* ------------------------------------------------------- submitPublicVote
\* The election as findOne(...).populate('candidates') returns it.
WithPopulated(d) ==
  [d EXCEPT !.candidates = SelectSeq(@, LAMBDA x : x \in DOMAIN candidateDocs)]

\* The public request up to `await Candidate.findById`: the token lookup,
\* isVotingAllowed, the roll number checks.
SubmitPublicVoteFind(p, token, c, roll) ==
  /\ Free(p)
  /\ started' = started + 1
  /\ LET hit == {e \in DOMAIN elections :
                   elections[e].accessToken = token /\ elections[e].isEnabled}
     IN  Begin(p,
           IF c = "" THEN Reject("submitPublicVote", "noCandidate")
           ELSE IF hit = {} THEN Reject("submitPublicVote", "invalidLink")
           ELSE LET e == CHOOSE x \in hit : TRUE
                    d == elections[e]
                IN  IF ~isVotingAllowed(d, now)
                      THEN Reject("submitPublicVote", "notAvailable")
                    ELSE IF d.requireRollNumber /\ roll = ""
                      THEN Reject("submitPublicVote", "rollRequired")
                    ELSE IF roll # "" /\ hasVoted(d, "", roll)
                      THEN Reject("submitPublicVote", "alreadyVoted")
                    ELSE [Blank EXCEPT !.op = "submitPublicVote", !.pc = "findCandidate",
                                       !.eid = e, !.cand = c, !.roll = roll,
                                       !.doc = WithPopulated(d), !.base = WithPopulated(d)])
  /\ UNCHANGED <<users, classes, now, elections, candidateDocs, appended>>

\* Candidate.findById resolved: reject, or push the anonymous vote (the
\* roll number, or the synthesized identifier when none was sent).
SubmitPublicVoteCandidate(p) ==
  /\ reqs[p].op = "submitPublicVote" /\ reqs[p].pc = "findCandidate"
  /\ LET r == reqs[p]
         members == {r.doc.candidates[i] : i \in 1..Len(r.doc.candidates)}
     IN  Continue(p,
           IF r.cand \notin DOMAIN candidateDocs \/ r.cand \notin members
             THEN Reject("submitPublicVote", "invalidCandidate")
             ELSE [r EXCEPT !.pc = "save",
                     !.doc.anonymousVotes =
                        Append(@, [rollNumber |-> IF r.roll = "" THEN "anonymous" ELSE r.roll,
                                   candidate |-> r.cand])])
  /\ UNCHANGED <<users, classes, now, elections, candidateDocs, started, appended>>

\* election.save() of submitPublicVote, then SystemLog.create, which throws
\* to the error handler when the schema refuses the entry.
SubmitPublicVoteSave(p) ==
  /\ reqs[p].op = "submitPublicVote" /\ reqs[p].pc = "save"
  /\ LET r == reqs[p]
     IN  /\ r.eid \in DOMAIN elections
         /\ elections' = [elections EXCEPT ![r.eid] = SaveDelta(@, r.doc, r.base)]
         /\ appended' = appended \cup {Stamp(r.eid, "anonymousVotes")}
  /\ reqs' = [reqs EXCEPT ![p] = Blank]
  /\ last' = IF "ANONYMOUS_VOTE_CAST" \in LogActions
               THEN Response("submitPublicVote", "voted", <<"ANONYMOUS_VOTE_CAST">>)
               ELSE Response("submitPublicVote", "error", <<>>)
  /\ UNCHANGED <<users, classes, now, candidateDocs, started>>

\* --------------------------------------------------------- createElection
\* A fresh ObjectId.
NewElectionId == CHOOSE e \in ElectionIds : e \notin DOMAIN elections

Creating == {p \in Procs : reqs[p].op = "createElection"}

\* The start date test of createElection: TRUE when the date is refused.
StartRefused(start, t) == start < t

\* The request up to `await Election.findOne`: the class lookup and the
\* date validation.
CreateElectionValidate(p, teacher, cls, start, end) ==
  /\ Free(p)
  /\ Cardinality(DOMAIN elections) + Cardinality(Creating) < Cardinality(ElectionIds)
  /\ started' = started + 1
  /\ Begin(p,
       IF ClassTeacherOf(cls) # teacher THEN Reject("createElection", "noPermission")
       ELSE IF StartRefused(start, now) THEN Reject("createElection", "startInPast")
       ELSE IF end <= start THEN Reject("createElection", "endBeforeStart")
       ELSE [Blank EXCEPT !.op = "createElection", !.pc = "checkOverlap",
                          !.user = teacher, !.cls = cls,
                          !.start = start, !.end = end, !.t = now])
  /\ UNCHANGED <<users, classes, now, elections, candidateDocs, appended>>

\* The three-clause $or query for overlapping elections of the class.
OverlapQuery(d, cls, start, end) ==
  /\ d.cls = cls
  /\ d.status \in {"active", "pending"}
  /\ \/ d.startDate <= end /\ d.startDate >= start
     \/ d.endDate <= end /\ d.endDate >= start
     \/ d.startDate <= start /\ d.endDate >= end

\* Election.findOne(overlap) resolved: reject, or build the new document.
CreateElectionCheck(p) ==
  /\ reqs[p].op = "createElection" /\ reqs[p].pc = "checkOverlap"
  /\ LET r == reqs[p]
     IN  Continue(p,
           IF \E e \in DOMAIN elections : OverlapQuery(elections[e], r.cls, r.start, r.end)
             THEN Reject("createElection", "overlap")
             ELSE [r EXCEPT !.pc = "save",
                     !.doc = NewElection("T1", "D1", r.cls, r.start, r.end, r.user)])
  /\ UNCHANGED <<users, classes, now, elections, candidateDocs, started, appended>>

\* election.save() of the new document.
CreateElectionSave(p) ==
  /\ reqs[p].op = "createElection" /\ reqs[p].pc = "save"
  /\ elections' = elections @@ (NewElectionId :> reqs[p].doc)
  /\ Finish(p, "created", "election_create")
  /\ UNCHANGED <<users, classes, now, candidateDocs, started, appended>>

\* --------------------------------------------------------- updateElection
HasPermission(d, teacher) ==
  d.createdBy = teacher \/ ClassTeacherOf(d.cls) = teacher

\* Which new start dates updateElection accepts for a pending election.
StartDateAccepted(newStart, t) == newStart > t

\* The title, description and date edits of updateElection on the loaded
\* document; rej names the early return, if any.
EditedDoc(d, title, description, start, end, t) ==
  LET d1 == IF title # NoText THEN [d EXCEPT !.title = title] ELSE d
      d2 == IF description # NoText THEN [d1 EXCEPT !.description = description] ELSE d1
  IN  IF d.status # "pending" THEN [rej |-> "", doc |-> d2]
      ELSE IF start # NoDate /\ ~StartDateAccepted(start, t)
        THEN [rej |-> "startInPast", doc |-> d2]
      ELSE LET d3 == IF start # NoDate THEN [d2 EXCEPT !.startDate = start] ELSE d2
           IN  IF end # NoDate /\ ~(end > d3.startDate)
                 THEN [rej |-> "endBeforeStart", doc |-> d3]
               ELSE [rej |-> "",
                     doc |-> IF end # NoDate THEN [d3 EXCEPT !.endDate = end] ELSE d3]

\* The status branch of updateElection (calculateResults included).
TeacherStatus(d, status, t) ==
  IF status = "completed" /\ d.status = "active" THEN CalcDoc(d, t)
  ELSE IF status = "cancelled" /\ d.status # "completed" THEN [d EXCEPT !.status = "cancelled"]
  ELSE IF status = "active" /\ d.status = "pending" THEN [d EXCEPT !.status = "active"]
  ELSE d

\* The request up to its first save: findById, the permission and
\* completed checks, the edits and the status branch.
UpdateElectionLoad(p, teacher, e, title, description, start, end, status) ==
  /\ Free(p)
  /\ started' = started + 1
  /\ Begin(p,
       IF e \notin DOMAIN elections THEN Reject("updateElection", "notFound")
       ELSE LET d == elections[e]
                ed == EditedDoc(d, title, description, start, end, now)
                calc == status = "completed" /\ d.status = "active"
            IN  IF ~HasPermission(d, teacher) THEN Reject("updateElection", "noPermission")
                ELSE IF d.status = "completed" /\ status # "completed"
                  THEN Reject("updateElection", "completedLocked")
                ELSE IF ed.rej # "" THEN Reject("updateElection", ed.rej)
                ELSE [Blank EXCEPT !.op = "updateElection", !.eid = e, !.user = teacher,
                        !.t = now, !.base = d,
                        !.doc = TeacherStatus(ed.doc, status, now),
                        !.ret = IF calc THEN <<CalcReturn(ed.doc)>> ELSE <<>>,
                        !.pc = IF calc /\ CalcReturn(ed.doc).winnerId # NoCandidate
                                 THEN "calcSave" ELSE "save"])
  /\ UNCHANGED <<users, classes, now, elections, candidateDocs, appended>>

\* `await this.save()` inside calculateResults.
CalcSave(p) ==
  /\ reqs[p].eid \in DOMAIN elections
  /\ elections' = [elections EXCEPT ![reqs[p].eid] = SaveDelta(@, reqs[p].doc, reqs[p].base)]
  /\ UNCHANGED <<users, classes, now, candidateDocs, started, last, appended>>

\* The handler's last `await election.save()`, its audit entry and its response.
FinalSave(p, action) ==
  /\ reqs[p].eid \in DOMAIN elections
  /\ elections' = [elections EXCEPT ![reqs[p].eid] = SaveDelta(@, reqs[p].doc, reqs[p].base)]
  /\ Finish(p, "saved", action)
  /\ UNCHANGED <<users, classes, now, candidateDocs, started, appended>>

UpdateElectionCalcSave(p) ==
  /\ reqs[p].op = "updateElection" /\ reqs[p].pc = "calcSave"
  /\ CalcSave(p)
  /\ reqs' = [reqs EXCEPT ![p].pc = "save", ![p].base = reqs[p].doc]

UpdateElectionSave(p) ==
  /\ reqs[p].op = "updateElection" /\ reqs[p].pc = "save"
  /\ FinalSave(p, "election_update")

\* ------------------------------------------- updateElectionStatus (admin)
\* The status validation of the admin request.
ValidStatus(status) == status \in Statuses

UpdateElectionStatusLoad(p, e, status) ==
  /\ Free(p)
  /\ started' = started + 1
  /\ Begin(p,
       IF ~ValidStatus(status) THEN Reject("updateElectionStatus", "invalidStatus")
       ELSE IF e \notin DOMAIN elections THEN Reject("updateElectionStatus", "notFound")
       ELSE LET d == [elections[e] EXCEPT !.status = status]
                calc == status = "completed"
            IN  [Blank EXCEPT !.op = "updateElectionStatus", !.eid = e, !.user = "admin",
                   !.t = now, !.base = elections[e],
                   !.doc = IF calc THEN CalcDoc(d, now) ELSE d,
                   !.ret = IF calc THEN <<CalcReturn(d)>> ELSE <<>>,
                   !.pc = IF calc /\ CalcReturn(d).winnerId # NoCandidate
                            THEN "calcSave" ELSE "save"])
  /\ UNCHANGED <<users, classes, now, elections, candidateDocs, appended>>

UpdateElectionStatusCalcSave(p) ==
  /\ reqs[p].op = "updateElectionStatus" /\ reqs[p].pc = "calcSave"
  /\ CalcSave(p)
  /\ reqs' = [reqs EXCEPT ![p].pc = "save", ![p].base = reqs[p].doc]

UpdateElectionStatusSave(p) ==
  /\ reqs[p].op = "updateElectionStatus" /\ reqs[p].pc = "save"
  /\ FinalSave(p, "admin_action")

\* --------------------------------------------------------- publishResults
\* A publication that switches the published flag instead of setting it.
PublishSwitch(d, t) == [d EXCEPT !.published = ~@, !.publishedAt = t]

\* published and publishedAt as publishResults sets them after calculateResults.
Publish(d, t) == [d EXCEPT !.published = TRUE, !.publishedAt = t]

PublishResultsLoad(p, teacher, e) ==
  /\ Free(p)
  /\ started' = started + 1
  /\ Begin(p,
       IF e \notin DOMAIN elections THEN Reject("publishResults", "notFound")
       ELSE LET d == elections[e]
                d1 == IF d.status # "completed" THEN [d EXCEPT !.status = "completed"] ELSE d
                won == CalcReturn(d1).winnerId # NoCandidate
            IN  IF ~HasPermission(d, teacher) THEN Reject("publishResults", "noPermission")
                ELSE IF d.status # "completed" /\ ~(d.status = "active" /\ d.endDate <= now)
                  THEN Reject("publishResults", "notCompleted")
                ELSE [Blank EXCEPT !.op = "publishResults", !.eid = e, !.user = teacher,
                        !.t = now, !.base = d, !.ret = <<CalcReturn(d1)>>,
                        !.doc = IF won THEN CalcDoc(d1, now) ELSE Publish(d1, now),
                        !.pc = IF won THEN "calcSave" ELSE "save"])
  /\ UNCHANGED <<users, classes, now, elections, candidateDocs, appended>>

PublishResultsCalcSave(p) ==
  /\ reqs[p].op = "publishResults" /\ reqs[p].pc = "calcSave"
  /\ CalcSave(p)
  /\ reqs' = [reqs EXCEPT ![p].pc = "save", ![p].base = reqs[p].doc,
                          ![p].doc = Publish(reqs[p].doc, now)]

PublishResultsSave(p) ==
  /\ reqs[p].op = "publishResults" /\ reqs[p].pc = "save"
  /\ FinalSave(p, "result_publish")

\* ---------------------------------------------------------- QR management
\* The role check of the QR handlers.
QRAuthorized(user) == user \in DOMAIN users /\ users[user].role \in {"teacher", "admin"}

\* election.save() of a handler whose election may have been deleted
\* meanwhile: the stored collection afterwards.
SavedElections(r) ==
  IF r.eid \in DOMAIN elections
    THEN [elections EXCEPT ![r.eid] = SaveDelta(@, r.doc, r.base)]
    ELSE elections

\* A toggle that disables the link and never enables it again.
FlipOff(enabled) == FALSE

\* qrCode.isEnabled as toggleQRAccess sets it.
Flip(enabled) == ~enabled

\* toggleQRAccess up to its save: the role check, findById, the flip.
ToggleQRAccessLoad(p, user, e) ==
  /\ Free(p)
  /\ started' = started + 1
  /\ Begin(p,
       IF ~QRAuthorized(user) THEN Reject("toggleQRAccess", "unauthorized")
       ELSE IF e \notin DOMAIN elections THEN Reject("toggleQRAccess", "notFound")
       ELSE [Blank EXCEPT !.op = "toggleQRAccess", !.pc = "save", !.eid = e, !.user = user,
                          !.base = elections[e],
                          !.doc = [elections[e] EXCEPT !.isEnabled = Flip(@)]])
  /\ UNCHANGED <<users, classes, now, elections, candidateDocs, appended>>

\* election.save() of toggleQRAccess and the JSON response (qrEnabled).
ToggleQRAccessSave(p) ==
  /\ reqs[p].op = "toggleQRAccess" /\ reqs[p].pc = "save"
  /\ elections' = SavedElections(reqs[p])
  /\ reqs' = [reqs EXCEPT ![p] = Blank]
  /\ last' = Response("toggleQRAccess",
                      IF reqs[p].eid \notin DOMAIN elections THEN "error"
                      ELSE IF reqs[p].doc.isEnabled THEN "enabled" ELSE "disabled", <<>>)
  /\ UNCHANGED <<users, classes, now, candidateDocs, started, appended>>

\* new Date(x) of a missing or malformed input is an Invalid Date (NoDate),
\* and every comparison with it is false.
DateGE(a, b) == a # NoDate /\ b # NoDate /\ a >= b

\* A slot test that lets equal start and end times through.
SlotRefusedStrict(start, end) == start # NoDate /\ end # NoDate /\ start > end

\* The time slot test of addVotingTimeSlot: TRUE when the slot is refused.
SlotRefused(start, end) == DateGE(start, end)

\* addVotingTimeSlot up to its save: the role check, findById, the slot
\* test, the push.
AddVotingTimeSlotLoad(p, user, e, start, end) ==
  /\ Free(p)
  /\ started' = started + 1
  /\ Begin(p,
       IF ~QRAuthorized(user) THEN Reject("addVotingTimeSlot", "unauthorized")
       ELSE IF e \notin DOMAIN elections THEN Reject("addVotingTimeSlot", "notFound")
       ELSE IF SlotRefused(start, end) THEN Reject("addVotingTimeSlot", "startNotBeforeEnd")
       ELSE [Blank EXCEPT !.op = "addVotingTimeSlot", !.pc = "save", !.eid = e, !.user = user,
                          !.start = start, !.end = end,
                          !.base = elections[e],
                          !.doc = [elections[e] EXCEPT !.votingTimeSlots =
                                     Append(@, [startTime |-> start, endTime |-> end,
                                                isActive |-> TRUE])]])
  /\ UNCHANGED <<users, classes, now, elections, candidateDocs, appended>>

\* election.save() of addVotingTimeSlot; validation refuses an Invalid Date
\* and nothing is written.
AddVotingTimeSlotSave(p) ==
  /\ reqs[p].op = "addVotingTimeSlot" /\ reqs[p].pc = "save"
  /\ LET r == reqs[p]
         valid == r.start # NoDate /\ r.end # NoDate /\ r.eid \in DOMAIN elections
     IN  /\ elections' = IF valid THEN SavedElections(r) ELSE elections
         /\ last' = Response("addVotingTimeSlot", IF valid THEN "added" ELSE "error", <<>>)
  /\ reqs' = [reqs EXCEPT ![p] = Blank]
  /\ UNCHANGED <<users, classes, now, candidateDocs, started, appended>>

\* crypto.randomBytes(32): a token no earlier call returned.
FreshTokens == <<"tokA", "tokB", "tokC", "tokD", "tokE">>

\* The generateQRToken method.
generateQRToken(doc) == [doc EXCEPT !.accessToken = FreshTokens[started + 1]]

\* generateElectionQR up to its first save: the role check, findById, and
\* the token if the loaded election has none.
GenerateElectionQRLoad(p, user, e) ==
  /\ Free(p)
  /\ started' = started + 1
  /\ Begin(p,
       IF ~QRAuthorized(user) THEN Reject("generateElectionQR", "unauthorized")
       ELSE IF e \notin DOMAIN elections THEN Reject("generateElectionQR", "notFound")
       ELSE LET d == elections[e]
            IN  IF d.accessToken = NoToken
                  THEN [Blank EXCEPT !.op = "generateElectionQR", !.pc = "saveToken",
                                     !.eid = e, !.user = user, !.base = d,
                                     !.doc = generateQRToken(d)]
                  ELSE [Blank EXCEPT !.op = "generateElectionQR", !.pc = "saveData",
                                     !.eid = e, !.user = user, !.base = d,
                                     !.doc = [d EXCEPT !.qrData = d.accessToken]])
  /\ UNCHANGED <<users, classes, now, elections, candidateDocs, appended>>

\* The save of the new token, then the QR image of the voting URL.
GenerateElectionQRSaveToken(p) ==
  /\ reqs[p].op = "generateElectionQR" /\ reqs[p].pc = "saveToken"
  /\ elections' = SavedElections(reqs[p])
  /\ IF reqs[p].eid \in DOMAIN elections
       THEN /\ reqs' = [reqs EXCEPT ![p].pc = "saveData", ![p].base = reqs[p].doc,
                                    ![p].doc.qrData = reqs[p].doc.accessToken]
            /\ UNCHANGED last
       ELSE /\ reqs' = [reqs EXCEPT ![p] = Blank]
            /\ last' = Response("generateElectionQR", "error", <<>>)
  /\ UNCHANGED <<users, classes, now, candidateDocs, started, appended>>

\* The save of the QR image and the JSON response, which carries the
\* access token of the loaded document.
GenerateElectionQRSaveData(p) ==
  /\ reqs[p].op = "generateElectionQR" /\ reqs[p].pc = "saveData"
  /\ elections' = SavedElections(reqs[p])
  /\ reqs' = [reqs EXCEPT ![p] = Blank]
  /\ last' = Response("generateElectionQR",
                      IF reqs[p].eid \in DOMAIN elections THEN reqs[p].doc.accessToken
                      ELSE "error", <<>>)
  /\ UNCHANGED <<users, classes, now, candidateDocs, started, appended>>

\* ------------------------------------------------------------ addCandidate
availableSymbols ==
  { "star", "circle", "square", "triangle", "diamond", "heart", "club", "spade",
    "apple", "book", "pencil", "pen", "trophy", "flag", "crown", "leaf", "flower",
    "tree", "sun", "moon", "cloud", "umbrella", "bell", "key", "lock", "phone",
    "camera", "computer", "rocket", "car" }

\* new Candidate(): an ObjectId no earlier document has.
FreshCandidateIds == <<"n1", "n2", "n3", "n4", "n5">>

\* Candidate.findOne({student, election}).
ExistingCandidate(student, e) ==
  \E c \in DOMAIN candidateDocs :
    candidateDocs[c].student = student /\ candidateDocs[c].election = e

\* A Candidate collection without the unique index.
NoUniqueIndex(student, e) == FALSE

\* The unique index on (student, election): TRUE when an insert is refused
\* with a duplicate key error.
DuplicateKey(student, e) == ExistingCandidate(student, e)

\* addCandidate up to `await User.findOne`: findById, the permission and
\* status checks.
AddCandidateLoad(p, teacher, e, student, symbol) ==
  /\ Free(p)
  /\ started' = started + 1
  /\ Begin(p,
       IF e \notin DOMAIN elections THEN Reject("addCandidate", "notFound")
       ELSE IF ~HasPermission(elections[e], teacher) THEN Reject("addCandidate", "noPermission")
       ELSE IF elections[e].status \in {"completed", "cancelled"}
         THEN Reject("addCandidate", "closed")
       ELSE [Blank EXCEPT !.op = "addCandidate", !.pc = "findStudent", !.eid = e,
                          !.user = teacher, !.student = student, !.symbol = symbol,
                          !.cand = FreshCandidateIds[started + 1],
                          !.doc = elections[e], !.base = elections[e]])
  /\ UNCHANGED <<users, classes, now, elections, candidateDocs, appended>>

\* User.findOne({_id, role: 'student', class, active: true}) resolved.
AddCandidateStudent(p) ==
  /\ reqs[p].op = "addCandidate" /\ reqs[p].pc = "findStudent"
  /\ LET r == reqs[p]
         found == /\ r.student \in DOMAIN users
                  /\ users[r.student].role = "student"
                  /\ users[r.student].cls = r.doc.cls
                  /\ users[r.student].active
     IN  Continue(p, IF ~found THEN Reject("addCandidate", "invalidStudent")
                     ELSE [r EXCEPT !.pc = "findExisting"])
  /\ UNCHANGED <<users, classes, now, elections, candidateDocs, started, appended>>

\* Candidate.findOne({student, election}) resolved, then the symbol check
\* and new Candidate(...).
AddCandidateExisting(p) ==
  /\ reqs[p].op = "addCandidate" /\ reqs[p].pc = "findExisting"
  /\ LET r == reqs[p]
     IN  Continue(p,
           IF ExistingCandidate(r.student, r.eid) THEN Reject("addCandidate", "alreadyCandidate")
           ELSE IF r.symbol \notin availableSymbols THEN Reject("addCandidate", "invalidSymbol")
           ELSE [r EXCEPT !.pc = "saveCandidate"])
  /\ UNCHANGED <<users, classes, now, elections, candidateDocs, started, appended>>

\* candidate.save(), then the push on the loaded election.
AddCandidateSaveCandidate(p) ==
  /\ reqs[p].op = "addCandidate" /\ reqs[p].pc = "saveCandidate"
  /\ LET r == reqs[p]
     IN  IF DuplicateKey(r.student, r.eid)
           THEN /\ Continue(p, Reject("addCandidate", "duplicateKey"))
                /\ UNCHANGED candidateDocs
           ELSE /\ candidateDocs' = candidateDocs @@
                     (r.cand :> [student |-> r.student, election |-> r.eid,
                                 approved |-> TRUE, active |-> TRUE])
                /\ Continue(p, [r EXCEPT !.pc = "saveElection",
                                         !.doc.candidates = Append(@, r.cand)])
  /\ UNCHANGED <<users, classes, now, elections, started, appended>>

\* election.save() of addCandidate, the audit entry, the response; the save
\* fails when the election is no longer stored.
AddCandidateSaveElection(p) ==
  /\ reqs[p].op = "addCandidate" /\ reqs[p].pc = "saveElection"
  /\ elections' = SavedElections(reqs[p])
  /\ IF reqs[p].eid \in DOMAIN elections
       THEN Finish(p, "added", "candidate_create")
       ELSE Continue(p, Reject("addCandidate", "error"))
  /\ UNCHANGED <<users, classes, now, candidateDocs, started, appended>>

\* --------------------------------------------------------- removeCandidate
\* The status test of removeCandidate: TRUE when the removal is refused.
RemovalLocked(status) == status = "active" \/ status = "completed"

\* removeCandidate up to `await Candidate.findOne`.
RemoveCandidateLoad(p, teacher, e, c) ==
  /\ Free(p)
  /\ started' = started + 1
  /\ Begin(p,
       IF e \notin DOMAIN elections THEN Reject("removeCandidate", "notFound")
       ELSE IF ~HasPermission(elections[e], teacher)
         THEN Reject("removeCandidate", "noPermission")
       ELSE IF RemovalLocked(elections[e].status) THEN Reject("removeCandidate", "locked")
       ELSE [Blank EXCEPT !.op = "removeCandidate", !.pc = "findCandidate", !.eid = e,
                          !.user = teacher, !.cand = c,
                          !.doc = elections[e], !.base = elections[e]])
  /\ UNCHANGED <<users, classes, now, elections, candidateDocs, appended>>

\* Candidate.findOne({_id, election}).populate('student') resolved, then the
\* filtered array is assigned to election.candidates.
RemoveCandidateFind(p) ==
  /\ reqs[p].op = "removeCandidate" /\ reqs[p].pc = "findCandidate"
  /\ LET r == reqs[p]
         found == r.cand \in DOMAIN candidateDocs /\ candidateDocs[r.cand].election = r.eid
     IN  Continue(p,
           IF ~found THEN Reject("removeCandidate", "candidateNotFound")
           ELSE [r EXCEPT !.pc = "saveElection",
                   !.student = IF candidateDocs[r.cand].student \in DOMAIN users
                                 THEN candidateDocs[r.cand].student ELSE "",
                   !.doc.candidates = SelectSeq(@, LAMBDA x : x # r.cand)])
  /\ UNCHANGED <<users, classes, now, elections, candidateDocs, started, appended>>

\* election.save() of removeCandidate: an assigned array is written with
\* $set under the version key, and the save fails if the stored version
\* moved on or the election is gone.
RemoveCandidateSaveElection(p) ==
  /\ reqs[p].op = "removeCandidate" /\ reqs[p].pc = "saveElection"
  /\ LET r == reqs[p]
         modified == r.doc.candidates # r.base.candidates
     IN  IF r.eid \notin DOMAIN elections
           THEN Continue(p, Reject("removeCandidate", "error")) /\ UNCHANGED elections
         ELSE IF modified /\ elections[r.eid].v # r.base.v
           THEN Continue(p, Reject("removeCandidate", "versionError")) /\ UNCHANGED elections
         ELSE /\ elections' = IF modified
                                THEN [elections EXCEPT ![r.eid].candidates = r.doc.candidates,
                                                       ![r.eid].v = @ + 1]
                                ELSE elections
              /\ Continue(p, [r EXCEPT !.pc = "deleteCandidate"])
  /\ UNCHANGED <<users, classes, now, candidateDocs, started, appended>>

\* candidate.deleteOne(), the audit entry (which reads the populated
\* student's name) and the response.
RemoveCandidateDelete(p) ==
  /\ reqs[p].op = "removeCandidate" /\ reqs[p].pc = "deleteCandidate"
  /\ candidateDocs' = [c \in DOMAIN candidateDocs \ {reqs[p].cand} |-> candidateDocs[c]]
  /\ IF reqs[p].student = ""
       THEN Continue(p, Reject("removeCandidate", "error"))
       ELSE Finish(p, "removed", "teacher_action")
  /\ UNCHANGED <<users, classes, now, elections, started, appended>>

\* ------------------------------------------------- deleteElection (admin)
\* The status test of deleteElection: TRUE when the deletion is refused.
DeletionLocked(status) == status = "active"

DeleteElectionLoad(p, e) ==
  /\ Free(p)
  /\ started' = started + 1
  /\ Begin(p,
       IF e \notin DOMAIN elections THEN Reject("deleteElection", "notFound")
       ELSE IF DeletionLocked(elections[e].status) THEN Reject("deleteElection", "activeLocked")
       ELSE [Blank EXCEPT !.op = "deleteElection", !.pc = "deleteCandidates", !.eid = e,
                          !.user = "admin", !.doc = elections[e], !.base = elections[e]])
  /\ UNCHANGED <<users, classes, now, elections, candidateDocs, appended>>

\* Candidate.deleteMany({election: id}).
DeleteElectionCandidates(p) ==
  /\ reqs[p].op = "deleteElection" /\ reqs[p].pc = "deleteCandidates"
  /\ candidateDocs' = [c \in {x \in DOMAIN candidateDocs :
                                candidateDocs[x].election # reqs[p].eid} |-> candidateDocs[c]]
  /\ reqs' = [reqs EXCEPT ![p].pc = "deleteElection"]
  /\ UNCHANGED <<users, classes, now, elections, started, last, appended>>

\* election.deleteOne(), the audit entry, the response.
DeleteElectionDoc(p) ==
  /\ reqs[p].op = "deleteElection" /\ reqs[p].pc = "deleteElection"
  /\ elections' = [e \in DOMAIN elections \ {reqs[p].eid} |-> elections[e]]
  /\ Finish(p, "deleted", "admin_action")
  /\ UNCHANGED <<users, classes, now, candidateDocs, started, appended>>

\* ----------------------------------------------------- deleteUser (admin)
\* deleteUser up to `await userToDelete.deleteOne()`: findById and the
\* own-account check.
DeleteUserLoad(p, admin, u) ==
  /\ Free(p)
  /\ started' = started + 1
  /\ Begin(p,
       IF u \notin DOMAIN users THEN Reject("deleteUser", "notFound")
       ELSE IF u = admin THEN Reject("deleteUser", "ownAccount")
       ELSE [Blank EXCEPT !.op = "deleteUser", !.pc = "delete", !.user = admin,
                          !.student = u])
  /\ UNCHANGED <<users, classes, now, elections, candidateDocs, appended>>

\* userToDelete.deleteOne(), the audit entry, the response.
DeleteUserDoc(p) ==
  /\ reqs[p].op = "deleteUser" /\ reqs[p].pc = "delete"
  /\ users' = [u \in DOMAIN users \ {reqs[p].student} |-> users[u]]
  /\ Finish(p, "deleted", "admin_action")
  /\ UNCHANGED <<classes, now, elections, candidateDocs, started, appended>>

\* ---------------------------------------------------- deleteClass (admin)
\* User.countDocuments({class: id}).
studentsInClass(k) == Cardinality({u \in DOMAIN users : users[u].cls = k})

\* A count of the elections of a class that finds none.
NoElectionsForClass(k) == 0

\* Election.countDocuments({class: id}).
electionsForClass(k) == Cardinality({e \in DOMAIN elections : elections[e].cls = k})

\* deleteClass up to `await User.countDocuments`: Class.findById.
DeleteClassLoad(p, k) ==
  /\ Free(p)
  /\ started' = started + 1
  /\ Begin(p,
       IF k \notin DOMAIN classes THEN Reject("deleteClass", "notFound")
       ELSE [Blank EXCEPT !.op = "deleteClass", !.pc = "countStudents", !.user = "admin",
                          !.cls = k])
  /\ UNCHANGED <<users, classes, now, elections, candidateDocs, appended>>

\* The count of the users of the class resolved.
DeleteClassStudents(p) ==
  /\ reqs[p].op = "deleteClass" /\ reqs[p].pc = "countStudents"
  /\ Continue(p, IF studentsInClass(reqs[p].cls) > 0 THEN Reject("deleteClass", "hasStudents")
                 ELSE [reqs[p] EXCEPT !.pc = "countElections"])
  /\ UNCHANGED <<users, classes, now, elections, candidateDocs, started, appended>>

\* The count of the elections of the class resolved.
DeleteClassElections(p) ==
  /\ reqs[p].op = "deleteClass" /\ reqs[p].pc = "countElections"
  /\ Continue(p, IF electionsForClass(reqs[p].cls) > 0 THEN Reject("deleteClass", "hasElections")
                 ELSE [reqs[p] EXCEPT !.pc = "delete"])
  /\ UNCHANGED <<users, classes, now, elections, candidateDocs, started, appended>>

\* classToDelete.deleteOne(), the audit entry, the response.
DeleteClassDoc(p) ==
  /\ reqs[p].op = "deleteClass" /\ reqs[p].pc = "delete"
  /\ classes' = [k \in DOMAIN classes \ {reqs[p].cls} |-> classes[k]]
  /\ Finish(p, "deleted", "admin_action")
  /\ UNCHANGED <<users, now, elections, candidateDocs, started, appended>>

\* ------------------------------------------------------------- User document
VerificationLifetime == 24   \* 24 * 60 * 60 * 1000 ms, in hours
ResetLifetime == 1           \* 1 * 60 * 60 * 1000 ms, in hours

\* new User({...}) of register: the schema defaults of models/User.js.  A
\* password is stored as its hash.
NewUser(email, password, role, roll, cls, token, expires) ==
  [ email |-> email, password |-> <<"hash", password>>,
    role |-> IF role = "" THEN "student" ELSE role,
    isVerified |-> FALSE, verificationToken |-> token, verificationExpires |-> expires,
    resetPasswordToken |-> NoToken, resetPasswordExpires |-> NoDate,
    active |-> TRUE,
    rollNumber |-> IF role = "student" THEN roll ELSE "",
    cls |-> IF role = "student" THEN cls ELSE "" ]

\* user.save() of a loaded user: $set of the changed paths.
SaveUserDelta(stored, doc, base) ==
  [ f \in DOMAIN stored |-> IF doc[f] # base[f] THEN doc[f] ELSE stored[f] ]

\* mailer.isCollegeEmail: the domain after the @ is the college's.
CollegeEmails == {"ea", "eb", "ec", "ed"}
isCollegeEmail(email) == email \in CollegeEmails

\* User.findOne({email}).
UserWithEmail(email) == \E u \in DOMAIN users : users[u].email = email

\* The unique index on email: TRUE when writing the email for user u is
\* refused with a duplicate key error.
DuplicateEmail(u, email) == \E w \in DOMAIN users : w # u /\ users[w].email = email

\* new User(): an ObjectId no earlier document has.
FreshUserIds == <<"u1", "u2", "u3", "u4", "u5">>

\* ---------------------------------------------------------------- register
\* register up to `await User.findOne({rollNumber, class, role})`: the form
\* validation, the college email test, User.findOne({email}), the student
\* fields test.
RegisterLoad(p, email, password, confirm, role, roll, cls) ==
  /\ Free(p)
  /\ started' = started + 1
  /\ Begin(p,
       IF email = "" \/ password = "" \/ confirm = ""
         THEN Reject("register", "missingFields")
       ELSE IF password # confirm THEN Reject("register", "passwordMismatch")
       ELSE IF password = "short" THEN Reject("register", "weakPassword")
       ELSE IF ~isCollegeEmail(email) THEN Reject("register", "notCollegeEmail")
       ELSE IF UserWithEmail(email) THEN Reject("register", "emailRegistered")
       ELSE IF role = "student" /\ (roll = "" \/ cls = "")
         THEN Reject("register", "studentFieldsRequired")
       ELSE [Blank EXCEPT !.op = "register", !.user = FreshUserIds[started + 1],
                          !.roll = roll, !.cls = cls, !.t = now,
                          !.pc = IF role = "student" THEN "findRoll" ELSE "save",
                          !.doc = NewUser(email, password, role, roll, cls,
                                          FreshTokens[started + 1],
                                          now + VerificationLifetime)])
  /\ UNCHANGED <<users, classes, now, elections, candidateDocs, appended>>

\* User.findOne({rollNumber, class, role: 'student'}) resolved.
RegisterRoll(p) ==
  /\ reqs[p].op = "register" /\ reqs[p].pc = "findRoll"
  /\ LET r == reqs[p]
         taken == \E u \in DOMAIN users :
                    /\ users[u].rollNumber = r.roll
                    /\ users[u].cls = r.cls
                    /\ users[u].role = "student"
     IN  Continue(p, IF taken THEN Reject("register", "rollRegistered")
                     ELSE [r EXCEPT !.pc = "save"])
  /\ UNCHANGED <<users, classes, now, elections, candidateDocs, started, appended>>

\* newUser.save(), the verification mail, the audit entry, the response.
RegisterSave(p) ==
  /\ reqs[p].op = "register" /\ reqs[p].pc = "save"
  /\ LET r == reqs[p]
     IN  IF DuplicateEmail(r.user, r.doc.email)
           THEN Continue(p, Reject("register", "duplicateKey")) /\ UNCHANGED users
           ELSE users' = users @@ (r.user :> r.doc) /\ Finish(p, "registered", "user_register")
  /\ UNCHANGED <<classes, now, elections, candidateDocs, started, appended>>

\* ----------------------------------------------------- updateUser (admin)
\* The assignments of updateUser to the loaded user.
EditedUser(d, email, role, active, roll, cls) ==
  LET d1 == [d EXCEPT !.email = email, !.role = role, !.active = active]
  IN  IF role = "student" THEN [d1 EXCEPT !.rollNumber = roll, !.cls = cls] ELSE d1

\* updateUser up to its next await: User.findById, then either the email
\* lookup (the email is changed) or the save.  doc holds the user as the
\* handler assigns it once the lookup has passed.
UpdateUserLoad(p, u, email, role, active, roll, cls) ==
  /\ Free(p)
  /\ started' = started + 1
  /\ Begin(p,
       IF u \notin DOMAIN users THEN Reject("updateUser", "notFound")
       ELSE [Blank EXCEPT !.op = "updateUser", !.user = "admin", !.student = u,
                          !.base = users[u],
                          !.doc = EditedUser(users[u], email, role, active, roll, cls),
                          !.pc = IF email # users[u].email THEN "findEmail" ELSE "save"])
  /\ UNCHANGED <<users, classes, now, elections, candidateDocs, appended>>

\* User.findOne({email}) resolved.
UpdateUserEmail(p) ==
  /\ reqs[p].op = "updateUser" /\ reqs[p].pc = "findEmail"
  /\ Continue(p, IF UserWithEmail(reqs[p].doc.email) THEN Reject("updateUser", "emailTaken")
                 ELSE [reqs[p] EXCEPT !.pc = "save"])
  /\ UNCHANGED <<users, classes, now, elections, candidateDocs, started, appended>>

\* userToUpdate.save(), the audit entry, the response.
UpdateUserSave(p) ==
  /\ reqs[p].op = "updateUser" /\ reqs[p].pc = "save"
  /\ LET r == reqs[p]
     IN  IF r.doc.email # r.base.email /\ DuplicateEmail(r.student, r.doc.email)
           THEN Continue(p, Reject("updateUser", "duplicateKey")) /\ UNCHANGED users
           ELSE /\ users' = [users EXCEPT ![r.student] = SaveUserDelta(@, r.doc, r.base)]
                /\ Finish(p, "updated", "admin_action")
  /\ UNCHANGED <<classes, now, elections, candidateDocs, started, appended>>

\* ------------------------------------------------- verification and reset
\* A token lookup that ignores the expiry date.
TokenAliveAlways(expires, t) == TRUE

\* The expiry test of the token lookups ({ $gt: Date.now() }).
TokenAlive(expires, t) == expires > t

\* A token was issued to a user, or accepted, by request number n at clock t.
TokenEvent(event, kind, u, token, t, n) ==
  [event |-> event, kind |-> kind, user |-> u, token |-> token, at |-> t, n |-> n]

\* User.findOne({verificationToken, verificationExpires: {$gt: now}}).
UsersWithVerificationToken(token) ==
  {u \in DOMAIN users : /\ users[u].verificationToken = token
                        /\ TokenAlive(users[u].verificationExpires, now)}

\* verifyEmail up to its save.
VerifyEmailLoad(p, token) ==
  /\ Free(p)
  /\ started' = started + 1
  /\ LET hit == UsersWithVerificationToken(token)
     IN  Begin(p,
           IF hit = {} THEN Reject("verifyEmail", "invalidToken")
           ELSE LET u == CHOOSE x \in hit : TRUE
                IN  [Blank EXCEPT !.op = "verifyEmail", !.pc = "save", !.student = u,
                                  !.token = token, !.t = now, !.base = users[u],
                                  !.doc = [users[u] EXCEPT !.isVerified = TRUE,
                                                           !.verificationToken = NoToken,
                                                           !.verificationExpires = NoDate]])
  /\ UNCHANGED <<users, classes, now, elections, candidateDocs, appended>>

\* user.save() of verifyEmail, the audit entry, the response.
VerifyEmailSave(p) ==
  /\ reqs[p].op = "verifyEmail" /\ reqs[p].pc = "save"
  /\ LET r == reqs[p]
     IN  /\ users' = [users EXCEPT ![r.student] = SaveUserDelta(@, r.doc, r.base)]
         /\ appended' = appended \cup
              {TokenEvent("used", "verification", r.student, r.token, now, started)}
  /\ Finish(p, "verified", "user_verify")
  /\ UNCHANGED <<classes, now, elections, candidateDocs, started>>

\* resendVerificationEmail up to its save: User.findOne({email, isVerified:
\* false}), the new token and its expiry.
ResendVerificationEmailLoad(p, email) ==
  /\ Free(p)
  /\ started' = started + 1
  /\ LET hit == {u \in DOMAIN users : users[u].email = email /\ ~users[u].isVerified}
     IN  Begin(p,
           IF hit = {} THEN Reject("resendVerificationEmail", "notFoundOrVerified")
           ELSE LET u == CHOOSE x \in hit : TRUE
                IN  [Blank EXCEPT !.op = "resendVerificationEmail", !.pc = "save",
                                  !.student = u, !.token = FreshTokens[started + 1],
                                  !.t = now, !.base = users[u],
                                  !.doc = [users[u] EXCEPT
                                             !.verificationToken = FreshTokens[started + 1],
                                             !.verificationExpires = now + VerificationLifetime]])
  /\ UNCHANGED <<users, classes, now, elections, candidateDocs, appended>>

\* user.save() of resendVerificationEmail, the mail, the response.
ResendVerificationEmailSave(p) ==
  /\ reqs[p].op = "resendVerificationEmail" /\ reqs[p].pc = "save"
  /\ LET r == reqs[p]
     IN  /\ users' = [users EXCEPT ![r.student] = SaveUserDelta(@, r.doc, r.base)]
         /\ appended' = appended \cup
              {TokenEvent("issued", "verification", r.student, r.token, r.t, started)}
  /\ FinishWith(p, "sent", <<>>)
  /\ UNCHANGED <<classes, now, elections, candidateDocs, started>>

\* forgotPassword up to its save: the email test, User.findOne({email}), the
\* new token and its expiry.
ForgotPasswordLoad(p, email) ==
  /\ Free(p)
  /\ started' = started + 1
  /\ LET hit == {u \in DOMAIN users : users[u].email = email}
     IN  Begin(p,
           IF email = "" THEN Reject("forgotPassword", "emailRequired")
           ELSE IF hit = {} THEN Reject("forgotPassword", "sentIfRegistered")
           ELSE LET u == CHOOSE x \in hit : TRUE
                IN  [Blank EXCEPT !.op = "forgotPassword", !.pc = "save",
                                  !.student = u, !.token = FreshTokens[started + 1],
                                  !.t = now, !.base = users[u],
                                  !.doc = [users[u] EXCEPT
                                             !.resetPasswordToken = FreshTokens[started + 1],
                                             !.resetPasswordExpires = now + ResetLifetime]])
  /\ UNCHANGED <<users, classes, now, elections, candidateDocs, appended>>

\* user.save() of forgotPassword, the mail, the audit entry, the response.
ForgotPasswordSave(p) ==
  /\ reqs[p].op = "forgotPassword" /\ reqs[p].pc = "save"
  /\ LET r == reqs[p]
     IN  /\ users' = [users EXCEPT ![r.student] = SaveUserDelta(@, r.doc, r.base)]
         /\ appended' = appended \cup
              {TokenEvent("issued", "reset", r.student, r.token, r.t, started)}
  /\ Finish(p, "sent", "password_reset")
  /\ UNCHANGED <<classes, now, elections, candidateDocs, started>>

\* User.findOne({resetPasswordToken, resetPasswordExpires: {$gt: now}}).
UsersWithResetToken(token) ==
  {u \in DOMAIN users : /\ users[u].resetPasswordToken = token
                        /\ TokenAlive(users[u].resetPasswordExpires, now)}

\* resetPassword up to its save: the password validation, the token lookup,
\* the new password.
ResetPasswordLoad(p, token, password, confirm) ==
  /\ Free(p)
  /\ started' = started + 1
  /\ LET hit == UsersWithResetToken(token)
     IN  Begin(p,
           IF password = "" \/ confirm = "" THEN Reject("resetPassword", "missingFields")
           ELSE IF password # confirm THEN Reject("resetPassword", "passwordMismatch")
           ELSE IF password = "short" THEN Reject("resetPassword", "weakPassword")
           ELSE IF hit = {} THEN Reject("resetPassword", "invalidToken")
           ELSE LET u == CHOOSE x \in hit : TRUE
                IN  [Blank EXCEPT !.op = "resetPassword", !.pc = "save", !.student = u,
                                  !.token = token, !.t = now, !.base = users[u],
                                  !.doc = [users[u] EXCEPT !.password = <<"hash", password>>,
                                                           !.resetPasswordToken = NoToken,
                                                           !.resetPasswordExpires = NoDate]])
  /\ UNCHANGED <<users, classes, now, elections, candidateDocs, appended>>

\* user.save() of resetPassword, the audit entry, the response.
ResetPasswordSave(p) ==
  /\ reqs[p].op = "resetPassword" /\ reqs[p].pc = "save"
  /\ LET r == reqs[p]
     IN  /\ users' = [users EXCEPT ![r.student] = SaveUserDelta(@, r.doc, r.base)]
         /\ appended' = appended \cup
              {TokenEvent("used", "reset", r.student, r.token, now, started)}
  /\ Finish(p, "reset", "password_reset")
  /\ UNCHANGED <<classes, now, elections, candidateDocs, started>>

\* The hours at which requests arrive: the first hours, and the hours
\* around the end of a verification token's life.
Moments == {0, 1, 2, MaxClock - 2, MaxClock - 1, MaxClock}

\* The clock moves on to hour t.
Elapse(t) ==
  /\ t > now
  /\ now' = t
  /\ UNCHANGED <<users, classes, elections, candidateDocs, reqs, started, last, appended>>

\* ------------------------------------------------------- specifications
\* An election that was created for [1, 2], given two candidates and a QR
\* token, and activated (the seed script stores such an election directly).
RunningElection ==
  [NewElection("T1", "D1", "k1", 1, 2, "t1") EXCEPT
     !.status = "active", !.candidates = <<"c1", "c2">>, !.accessToken = "tok1"]

RunningCandidates ==
  [c \in CandidateIds |->
     [student |-> IF c = "c1" THEN "s1" ELSE "s2", election |-> "e1",
      approved |-> TRUE, active |-> TRUE]]

NoElections == [e \in {} |-> NullDoc]
NoCandidates == [c \in {} |-> [student |-> "", election |-> "", approved |-> FALSE, active |-> FALSE]]

\* The users and classes the seed script registers: an admin, the class
\* teachers, the students of class k1.
SeedUsers ==
  [u \in Students \cup Teachers \cup {"admin"} |->
     IF u \in Students THEN [role |-> "student", cls |-> ClassOfStudent(u), active |-> TRUE]
     ELSE IF u \in Teachers THEN [role |-> "teacher", cls |-> "", active |-> TRUE]
     ELSE [role |-> "admin", cls |-> "", active |-> TRUE]]

SeedClasses == [k \in ClassIds |-> [classTeacher |-> ClassTeacherOf(k)]]

\* The roll number the seed script gives each student.
RollNumberOf(s) == IF s = "s1" THEN "r1" ELSE IF s = "s2" THEN "r2" ELSE "r3"

Voters == {"s1", "s2"}
StatusInputs == Statuses \cup {""}
DateInputs == Dates \cup {NoDate}

\* Voting on a running election while its status is changed.
InitVote ==
  /\ users = SeedUsers
  /\ classes = SeedClasses
  /\ now = 1
  /\ elections = ("e1" :> RunningElection)
  /\ candidateDocs = RunningCandidates
  /\ reqs = [p \in Procs |-> Blank]
  /\ started = 0
  /\ last = Response("", "", <<>>)
  /\ appended = {}

NextVote ==
  \/ Tick
  \/ \E p \in Procs, s \in Voters, c \in CandidateIds \cup {"c9"} : CastVoteFind(p, s, "e1", c)
  \/ \E p \in Procs : CastVoteCandidate(p)
  \/ \E p \in Procs : CastVoteSave(p)
  \/ \E p \in Procs, c \in CandidateIds \cup {""}, roll \in RollNumbers \cup {""} :
       SubmitPublicVoteFind(p, "tok1", c, roll)
  \/ \E p \in Procs : SubmitPublicVoteCandidate(p)
  \/ \E p \in Procs : SubmitPublicVoteSave(p)
  \/ \E p \in Procs, status \in StatusInputs :
       UpdateElectionLoad(p, "t1", "e1", NoText, NoText, NoDate, NoDate, status)
  \/ \E p \in Procs : UpdateElectionCalcSave(p)
  \/ \E p \in Procs : UpdateElectionSave(p)
  \/ \E p \in Procs, status \in Statuses : UpdateElectionStatusLoad(p, "e1", status)
  \/ \E p \in Procs : UpdateElectionStatusCalcSave(p)
  \/ \E p \in Procs : UpdateElectionStatusSave(p)
  \/ \E p \in Procs : PublishResultsLoad(p, "t1", "e1")
  \/ \E p \in Procs : PublishResultsCalcSave(p)
  \/ \E p \in Procs : PublishResultsSave(p)

SpecVote == InitVote /\ [][NextVote]_vars

\* The edit forms a teacher submits: new texts, new dates, or a new status.
UpdateForms ==
  {[title |-> "T2", description |-> "D2", start |-> NoDate, end |-> NoDate, status |-> ""]}
  \cup {[title |-> NoText, description |-> NoText, start |-> a, end |-> b, status |-> ""] :
          a \in DateInputs, b \in DateInputs}
  \cup {[title |-> NoText, description |-> NoText, start |-> NoDate, end |-> NoDate,
         status |-> st] : st \in Statuses}

\* The election lifecycle: an empty store, or a store with a running
\* election that holds one vote.
InitLife ==
  /\ users = SeedUsers
  /\ classes = SeedClasses
  /\ reqs = [p \in Procs |-> Blank]
  /\ started = 0
  /\ last = Response("", "", <<>>)
  /\ appended = {}
  /\ \/ /\ now = 0
        /\ elections = NoElections
        /\ candidateDocs = NoCandidates
     \/ /\ now = 1
        /\ elections = ("e1" :> [RunningElection EXCEPT
                                   !.votes = <<[student |-> "s1", candidate |-> "c1"]>>])
        /\ candidateDocs = RunningCandidates

NextLife ==
  \/ Tick
  \/ \E p \in Procs, teacher \in Teachers, cls \in ClassIds, start \in Dates, end \in Dates :
       CreateElectionValidate(p, teacher, cls, start, end)
  \/ \E p \in Procs : CreateElectionCheck(p)
  \/ \E p \in Procs : CreateElectionSave(p)
  \/ \E p \in Procs, teacher \in Teachers, e \in ElectionIds, f \in UpdateForms :
       UpdateElectionLoad(p, teacher, e, f.title, f.description, f.start, f.end, f.status)
  \/ \E p \in Procs : UpdateElectionCalcSave(p)
  \/ \E p \in Procs : UpdateElectionSave(p)
  \/ \E p \in Procs, e \in ElectionIds, status \in Statuses \cup {"closed"} :
       UpdateElectionStatusLoad(p, e, status)
  \/ \E p \in Procs : UpdateElectionStatusCalcSave(p)
  \/ \E p \in Procs : UpdateElectionStatusSave(p)
  \/ \E p \in Procs, teacher \in Teachers, e \in ElectionIds : PublishResultsLoad(p, teacher, e)
  \/ \E p \in Procs : PublishResultsCalcSave(p)
  \/ \E p \in Procs : PublishResultsSave(p)

SpecLife == InitLife /\ [][NextLife]_vars

\* Tallying: one election whose ledgers and status are drawn from the
\* bounded sets below; requests that complete or publish it run one at a time.
StudentAt(i) == IF i % 3 = 1 THEN "s1" ELSE IF i % 3 = 2 THEN "s2" ELSE "s3"

RECURSIVE SeqsUpTo(_, _)
SeqsUpTo(S, n) ==
  IF n = 0 THEN {<<>>}
  ELSE LET shorter == SeqsUpTo(S, n - 1)
       IN  shorter \cup {Append(q, x) : q \in shorter, x \in S}

Ledgers ==
  {[i \in 1..Len(q) |-> [student |-> StudentAt(i), candidate |-> q[i]]] :
     q \in SeqsUpTo(CandidateIds, MaxVotes)}

AnonymousLedgers ==
  {<<>>} \cup {<<[rollNumber |-> "r1", candidate |-> c]>> : c \in CandidateIds}

InitTally ==
  /\ users = SeedUsers
  /\ classes = SeedClasses
  /\ now = 2
  /\ \E votes \in Ledgers, anon \in AnonymousLedgers, st \in Statuses :
       elections = ("e1" :> [RunningElection EXCEPT
                               !.votes = votes, !.anonymousVotes = anon, !.status = st])
  /\ candidateDocs = RunningCandidates
  /\ reqs = [p \in Procs |-> Blank]
  /\ started = 0
  /\ last = Response("", "", <<>>)
  /\ appended = {}

NextTally ==
  \/ Tick
  \/ UpdateElectionLoad(1, "t1", "e1", NoText, NoText, NoDate, NoDate, "completed")
  \/ UpdateElectionCalcSave(1)
  \/ UpdateElectionSave(1)
  \/ UpdateElectionStatusLoad(1, "e1", "completed")
  \/ UpdateElectionStatusCalcSave(1)
  \/ UpdateElectionStatusSave(1)
  \/ PublishResultsLoad(1, "t1", "e1")
  \/ PublishResultsCalcSave(1)
  \/ PublishResultsSave(1)

SpecTally == InitTally /\ [][NextTally]_vars

\* The QR link of one election: requests that toggle the link, add time
\* slots and vote through the link, handled one at a time.  Every public vote
\* here carries the election's token and names a candidate.
InitQR ==
  /\ users = SeedUsers
  /\ classes = SeedClasses
  /\ now = 1
  /\ \E st \in Statuses, end \in {2, 3} :
       elections = ("e1" :> [RunningElection EXCEPT !.status = st, !.endDate = end])
  /\ candidateDocs = RunningCandidates
  /\ reqs = [p \in Procs |-> Blank]
  /\ started = 0
  /\ last = Response("", "", <<>>)
  /\ appended = {}

NextQR ==
  \/ Tick
  \/ \E user \in {"t1", "s1"}, e \in ElectionIds : ToggleQRAccessLoad(1, user, e)
  \/ ToggleQRAccessSave(1)
  \/ \E start \in DateInputs, end \in DateInputs :
       AddVotingTimeSlotLoad(1, "t1", "e1", start, end)
  \/ AddVotingTimeSlotSave(1)
  \/ \E c \in {"c1", "c9"}, roll \in {"r1", ""} :
       SubmitPublicVoteFind(1, "tok1", c, roll)
  \/ SubmitPublicVoteCandidate(1)
  \/ SubmitPublicVoteSave(1)

SpecQR == InitQR /\ [][NextQR]_vars

\* Issuing the QR token of a running election that has none yet, while
\* the link is toggled and used.
InitToken ==
  /\ users = SeedUsers
  /\ classes = SeedClasses
  /\ now = 1
  /\ elections = ("e1" :> [RunningElection EXCEPT !.accessToken = NoToken])
  /\ candidateDocs = RunningCandidates
  /\ reqs = [p \in Procs |-> Blank]
  /\ started = 0
  /\ last = Response("", "", <<>>)
  /\ appended = {}

NextToken ==
  \/ Tick
  \/ \E p \in Procs, user \in {"t1", "admin", "s1"}, e \in ElectionIds :
       GenerateElectionQRLoad(p, user, e)
  \/ \E p \in Procs : GenerateElectionQRSaveToken(p)
  \/ \E p \in Procs : GenerateElectionQRSaveData(p)
  \/ \E p \in Procs : ToggleQRAccessLoad(p, "t1", "e1")
  \/ \E p \in Procs : ToggleQRAccessSave(p)
  \/ \E p \in Procs, token \in {"tokA", "tokB"}, roll \in RollNumbers :
       SubmitPublicVoteFind(p, token, "c1", roll)
  \/ \E p \in Procs : SubmitPublicVoteCandidate(p)
  \/ \E p \in Procs : SubmitPublicVoteSave(p)

SpecToken == InitToken /\ [][NextToken]_vars

\* Candidacies of one election (in any status) while it is deleted.
InitCand ==
  /\ users = SeedUsers
  /\ classes = SeedClasses
  /\ now = 1
  /\ \E st \in Statuses : elections = ("e1" :> [RunningElection EXCEPT !.status = st])
  /\ candidateDocs = RunningCandidates
  /\ reqs = [p \in Procs |-> Blank]
  /\ started = 0
  /\ last = Response("", "", <<>>)
  /\ appended = {}

NextCand ==
  \/ \E p \in Procs, teacher \in Teachers, e \in ElectionIds,
        student \in {"s1", "s3", "t2"}, symbol \in {"star", "none"} :
       AddCandidateLoad(p, teacher, e, student, symbol)
  \/ \E p \in Procs : AddCandidateStudent(p)
  \/ \E p \in Procs : AddCandidateExisting(p)
  \/ \E p \in Procs : AddCandidateSaveCandidate(p)
  \/ \E p \in Procs : AddCandidateSaveElection(p)
  \/ \E p \in Procs, teacher \in Teachers, c \in {"c1", "n1"} :
       RemoveCandidateLoad(p, teacher, "e1", c)
  \/ \E p \in Procs : RemoveCandidateFind(p)
  \/ \E p \in Procs : RemoveCandidateSaveElection(p)
  \/ \E p \in Procs : RemoveCandidateDelete(p)
  \/ \E p \in Procs : DeleteElectionLoad(p, "e1")
  \/ \E p \in Procs : DeleteElectionCandidates(p)
  \/ \E p \in Procs : DeleteElectionDoc(p)

SpecCand == InitCand /\ [][NextCand]_vars

\* The admin's deletions, handled one at a time: the seeded users and
\* classes, the running election of class k1 with one vote, and possibly an
\* election of class k2.
InitAdmin ==
  /\ users = SeedUsers
  /\ classes = SeedClasses
  /\ now = 1
  /\ \E st \in Statuses, others \in {{}, {"pending"}, {"active"}} :
       elections =
         [e \in {"e1"} \cup {"e2" : x \in others} |->
            IF e = "e1"
              THEN [RunningElection EXCEPT
                      !.status = st, !.votes = <<[student |-> "s1", candidate |-> "c2"]>>]
              ELSE [NewElection("T1", "D1", "k2", 2, 3, "t2") EXCEPT
                      !.status = CHOOSE x \in others : TRUE]]
  /\ candidateDocs = RunningCandidates
  /\ reqs = [p \in Procs |-> Blank]
  /\ started = 0
  /\ last = Response("", "", <<>>)
  /\ appended = {}

NextAdmin ==
  \/ \E u \in Students \cup {"admin", "t2", "u9"} : DeleteUserLoad(1, "admin", u)
  \/ DeleteUserDoc(1)
  \/ \E k \in ClassIds \cup {"k9"} : DeleteClassLoad(1, k)
  \/ DeleteClassStudents(1)
  \/ DeleteClassElections(1)
  \/ DeleteClassDoc(1)
  \/ \E e \in ElectionIds : DeleteElectionLoad(1, e)
  \/ DeleteElectionCandidates(1)
  \/ DeleteElectionDoc(1)

SpecAdmin == InitAdmin /\ [][NextAdmin]_vars

\* The student vote route with its logging middleware, on a running election.
NextRoute ==
  \/ Tick
  \/ \E p \in Procs, s \in Voters, c \in CandidateIds \cup {"c9"} : LogActivityVote(p, s, "e1", c)
  \/ \E p \in Procs : CastVoteNext(p)
  \/ \E p \in Procs : CastVoteCandidate(p)
  \/ \E p \in Procs : CastVoteSave(p)

SpecRoute == InitVote /\ [][NextRoute]_vars

\* Registration and the admin's user edits, interleaved: two registered
\* students of class k1 and the admin.
RegisteredUser(email, role, roll, cls) ==
  [NewUser(email, "password0", role, roll, cls, NoToken, NoDate) EXCEPT !.isVerified = TRUE]

InitUsers ==
  /\ users = [u \in {"s1", "s2", "admin"} |->
                IF u = "s1" THEN RegisteredUser("ea", "student", "r1", "k1")
                ELSE IF u = "s2" THEN RegisteredUser("eb", "student", "r2", "k1")
                ELSE RegisteredUser("admin", "admin", "", "")]
  /\ classes = SeedClasses
  /\ now = 1
  /\ elections = NoElections
  /\ candidateDocs = NoCandidates
  /\ reqs = [p \in Procs |-> Blank]
  /\ started = 0
  /\ last = Response("", "", <<>>)
  /\ appended = {}

\* The registration forms submitted: students, a teacher, a form without a
\* role, and forms that fail the validation.
RegisterForms ==
  {[email |-> m, password |-> "password1", confirm |-> "password1",
    role |-> "student", roll |-> r, cls |-> "k1"] : m \in {"ea", "ec", "ed"}, r \in {"r1", "r3"}}
  \cup {[email |-> "ec", password |-> "password1", confirm |-> "password1",
         role |-> ro, roll |-> "", cls |-> ""] : ro \in {"teacher", "student", ""}}
  \cup {[email |-> m, password |-> pw, confirm |-> "password1",
         role |-> "student", roll |-> "r3", cls |-> "k1"] :
          m \in {"", "mail.example"}, pw \in {"password1", "password2", "short"}}
  \cup {[email |-> "ec", password |-> "short", confirm |-> "short",
         role |-> "student", roll |-> "r3", cls |-> "k1"]}

NextUsers ==
  \/ \E p \in Procs, f \in RegisterForms :
       RegisterLoad(p, f.email, f.password, f.confirm, f.role, f.roll, f.cls)
  \/ \E p \in Procs : RegisterRoll(p)
  \/ \E p \in Procs : RegisterSave(p)
  \/ \E p \in Procs, u \in {"s1", "s2", "u9"}, email \in {"ea", "eb", "ec"},
        role \in {"student", "teacher"}, roll \in {"r1", "r2"}, cls \in ClassIds :
       UpdateUserLoad(p, u, email, role, TRUE, roll, cls)
  \/ \E p \in Procs : UpdateUserEmail(p)
  \/ \E p \in Procs : UpdateUserSave(p)

SpecUsers == InitUsers /\ [][NextUsers]_vars

\* Verification and password reset, one request at a time, with the clock
\* in hours: u1 registered at hour 0 and is not verified yet, s1 asked for a
\* password reset at hour 0.
InitAuth ==
  /\ users = [u \in {"u1", "s1"} |->
                IF u = "u1"
                  THEN NewUser("ec", "password0", "student", "r3", "k1", "tok1",
                               0 + VerificationLifetime)
                  ELSE [RegisteredUser("ea", "student", "r1", "k1") EXCEPT
                          !.resetPasswordToken = "tok2",
                          !.resetPasswordExpires = 0 + ResetLifetime]]
  /\ classes = SeedClasses
  /\ now = 0
  /\ elections = NoElections
  /\ candidateDocs = NoCandidates
  /\ reqs = [p \in Procs |-> Blank]
  /\ started = 0
  /\ last = Response("", "", <<>>)
  /\ appended = { TokenEvent("issued", "verification", "u1", "tok1", 0, 0),
                  TokenEvent("issued", "reset", "s1", "tok2", 0, 0) }

TokenInputs == {"tok1", "tok2", "tokA", "tokB"}

NextAuth ==
  \/ \E t \in Moments : Elapse(t)
  \/ \E token \in TokenInputs : VerifyEmailLoad(1, token)
  \/ VerifyEmailSave(1)
  \/ \E email \in {"ec", "ea"} : ResendVerificationEmailLoad(1, email)
  \/ ResendVerificationEmailSave(1)
  \/ \E email \in {"ea", "ed", ""} : ForgotPasswordLoad(1, email)
  \/ ForgotPasswordSave(1)
  \/ \E token \in TokenInputs, password \in {"password1", "short"},
        confirm \in {"password1", "short", ""} :
       ResetPasswordLoad(1, token, password, confirm)
  \/ ResetPasswordSave(1)

SpecAuth == InitAuth /\ [][NextAuth]_vars

\* Edits by the teacher, one request at a time, of an election in any status
\* (ledgers drawn as for the tally): every combination of a new title, a new
\* description, new dates and a new status.
EditForms ==
  [ title : {NoText, "T2"}, description : {NoText, "D2"},
    start : {NoDate, 3}, end : {NoDate, 3}, status : StatusInputs ]

NextEdit ==
  \/ Tick
  \/ \E f \in EditForms :
       UpdateElectionLoad(1, "t1", "e1", f.title, f.description, f.start, f.end, f.status)
  \/ UpdateElectionCalcSave(1)
  \/ UpdateElectionSave(1)

SpecEdit == InitTally /\ [][NextEdit]_vars

\* Every handler that saves an election, interleaved, on a running election
\* that holds one vote in each ledger.
InitLedger ==
  /\ users = SeedUsers
  /\ classes = SeedClasses
  /\ now = 1
  /\ elections = ("e1" :> [RunningElection EXCEPT
                             !.votes = <<[student |-> "s1", candidate |-> "c1"]>>,
                             !.anonymousVotes = <<[rollNumber |-> "r1", candidate |-> "c2"]>>])
  /\ candidateDocs = RunningCandidates
  /\ reqs = [p \in Procs |-> Blank]
  /\ started = 0
  /\ last = Response("", "", <<>>)
  /\ appended = {}

NextLedger ==
  \/ \E p \in Procs : CastVoteFind(p, "s2", "e1", "c1")
  \/ \E p \in Procs : CastVoteCandidate(p)
  \/ \E p \in Procs : CastVoteSave(p)
  \/ \E p \in Procs : SubmitPublicVoteFind(p, "tok1", "c2", "r2")
  \/ \E p \in Procs : SubmitPublicVoteCandidate(p)
  \/ \E p \in Procs : SubmitPublicVoteSave(p)
  \/ \E p \in Procs : ToggleQRAccessLoad(p, "t1", "e1")
  \/ \E p \in Procs : ToggleQRAccessSave(p)
  \/ \E p \in Procs : AddVotingTimeSlotLoad(p, "t1", "e1", 1, 2)
  \/ \E p \in Procs : AddVotingTimeSlotSave(p)
  \/ \E p \in Procs : GenerateElectionQRLoad(p, "t1", "e1")
  \/ \E p \in Procs : GenerateElectionQRSaveData(p)
  \/ \E p \in Procs : AddCandidateLoad(p, "t1", "e1", "s3", "star")
  \/ \E p \in Procs : AddCandidateStudent(p)
  \/ \E p \in Procs : AddCandidateExisting(p)
  \/ \E p \in Procs : AddCandidateSaveCandidate(p)
  \/ \E p \in Procs : AddCandidateSaveElection(p)
  \/ \E p \in Procs, c \in CandidateIds : RemoveCandidateLoad(p, "t1", "e1", c)
  \/ \E p \in Procs : RemoveCandidateFind(p)
  \/ \E p \in Procs : RemoveCandidateSaveElection(p)
  \/ \E p \in Procs : RemoveCandidateDelete(p)
  \/ \E p \in Procs, status \in {"", "cancelled", "completed"} :
       UpdateElectionLoad(p, "t1", "e1", "T2", NoText, NoDate, NoDate, status)
  \/ \E p \in Procs : UpdateElectionCalcSave(p)
  \/ \E p \in Procs : UpdateElectionSave(p)
  \/ \E p \in Procs, status \in {"pending", "cancelled", "completed"} :
       UpdateElectionStatusLoad(p, "e1", status)
  \/ \E p \in Procs : UpdateElectionStatusCalcSave(p)
  \/ \E p \in Procs : UpdateElectionStatusSave(p)
  \/ \E p \in Procs : PublishResultsLoad(p, "t1", "e1")
  \/ \E p \in Procs : PublishResultsCalcSave(p)
  \/ \E p \in Procs : PublishResultsSave(p)

SpecLedger == InitLedger /\ [][NextLedger]_vars

\* ================================================================ claims
VotesFor(ledger, c) == Cardinality({i \in 1..Len(ledger) : ledger[i].candidate = c})

FirstVoteFor(ledger, c) ==
  CHOOSE i \in 1..Len(ledger) :
    ledger[i].candidate = c /\ \A j \in 1..(i - 1) : ledger[j].candidate # c

EntriesOf(ledger, s) == Cardinality({i \in 1..Len(ledger) : ledger[i].student = s})

EntriesOfRoll(ledger, r) == Cardinality({i \in 1..Len(ledger) : ledger[i].rollNumber = r})

\* C1: under any interleaving of castVote requests, the authenticated ledger
\* of every election holds at most one entry per student.
C1_OneVotePerStudent ==
  \A e \in DOMAIN elections, s \in Students : EntriesOf(elections[e].votes, s) <= 1

\* C2: under any interleaving of submitPublicVote requests, the anonymous
\* ledger of an election that requires roll numbers holds at most one entry
\* per roll number.
C2_OneVotePerRollNumber ==
  \A e \in DOMAIN elections, r \in RollNumbers :
    elections[e].requireRollNumber => EntriesOfRoll(elections[e].anonymousVotes, r) <= 1

\* C3: every ledger entry was written at a moment when the stored status was
\* active and the clock was inside [startDate, endDate].
C3_AppendedWhileActive ==
  \A a \in appended : a.status = "active" /\ a.inWindow

\* C4: the stored status changes only along pending->active, active->completed,
\* pending->cancelled and active->cancelled; completed and cancelled are final.
AllowedTransitions ==
  { <<"pending", "active">>, <<"active", "completed">>,
    <<"pending", "cancelled">>, <<"active", "cancelled">> }

C4_LifecycleTransitions ==
  [][ \A e \in DOMAIN elections :
        e \in DOMAIN elections' =>
          \/ elections'[e].status = elections[e].status
          \/ <<elections[e].status, elections'[e].status>> \in AllowedTransitions ]_vars

\* C5: no two distinct pending or active elections of one class have
\* intersecting [startDate, endDate] intervals.
Intersect(a, b) == a.startDate <= b.endDate /\ b.startDate <= a.endDate

C5_NoOverlap ==
  \A e1 \in DOMAIN elections, e2 \in DOMAIN elections :
    ( /\ e1 # e2
      /\ elections[e1].cls = elections[e2].cls
      /\ elections[e1].status \in {"pending", "active"}
      /\ elections[e2].status \in {"pending", "active"} )
    => ~Intersect(elections[e1], elections[e2])

\* C6: the overlap query of createElection rejects the request, leaving the
\* store unchanged, exactly when an existing pending or active election of the
\* same class satisfies newStart <= existingEnd and newEnd >= existingStart.
InclusiveOverlap(d, cls, start, end) ==
  /\ d.cls = cls
  /\ d.status \in {"pending", "active"}
  /\ start <= d.endDate
  /\ end >= d.startDate

C6_RejectsExactlyOnOverlap ==
  [][ \A p \in Procs :
        ( /\ reqs[p].op = "createElection"
          /\ reqs[p].pc = "checkOverlap"
          /\ reqs'[p].pc # "checkOverlap" )
        => /\ (reqs'[p].pc = "idle") <=>
                (\E e \in DOMAIN elections :
                   InclusiveOverlap(elections[e], reqs[p].cls, reqs[p].start, reqs[p].end))
           /\ elections' = elections ]_vars

\* C7: createElection stores an election only for the class teacher of the
\* class, with startDate strictly later than the clock at validation and
\* endDate > startDate; the stored election is pending with empty ledgers and
\* no access token; a rejected request stores nothing.
C7_CreateOnlyValid ==
  [][ \A p \in Procs :
        /\ ( reqs[p].op = "createElection" /\ reqs[p].pc = "save" /\ reqs'[p].pc = "idle" )
           => /\ ClassTeacherOf(reqs[p].cls) = reqs[p].user
              /\ reqs[p].start > reqs[p].t
              /\ reqs[p].end > reqs[p].start
              /\ \E e \in DOMAIN elections' \ DOMAIN elections :
                   /\ elections'[e].status = "pending"
                   /\ elections'[e].votes = <<>>
                   /\ elections'[e].anonymousVotes = <<>>
                   /\ elections'[e].accessToken = NoToken
        /\ ( last'.op = "createElection" /\ last'.result # "created" /\ last' # last )
           => elections' = elections ]_vars

\* C8: every stored election has startDate < endDate.
C8_StartBeforeEnd ==
  \A e \in DOMAIN elections : elections[e].startDate < elections[e].endDate

\* C9: calculateResults returns the size of the authenticated ledger, the
\* number of its entries per candidate, and (for a non-empty ledger) a
\* candidate with the most entries, the one met first among equals; the
\* anonymous ledger has no part in it.
C9_TallyOfVotes ==
  \A p \in Procs :
    reqs[p].ret # <<>> =>
      LET r == reqs[p].ret[1]
          L == reqs[p].doc.votes
      IN  /\ r.totalVotes = Len(L)
          /\ DOMAIN r.voteCounts = {L[i].candidate : i \in 1..Len(L)}
          /\ \A c \in DOMAIN r.voteCounts : r.voteCounts[c] = VotesFor(L, c)
          /\ Len(L) = 0 => r.winnerId = NoCandidate
          /\ Len(L) > 0 =>
               /\ r.winnerId \in DOMAIN r.voteCounts
               /\ \A c \in CandidateIds : VotesFor(L, c) <= VotesFor(L, r.winnerId)
               /\ \A c \in DOMAIN r.voteCounts :
                    (c # r.winnerId /\ VotesFor(L, c) = VotesFor(L, r.winnerId))
                    => FirstVoteFor(L, r.winnerId) < FirstVoteFor(L, c)

\* A tie that the candidate voted for first wins, with an anonymous vote on file.
C9_Witness ==
  \E p \in Procs :
    /\ reqs[p].ret # <<>>
    /\ Len(reqs[p].doc.votes) >= 2
    /\ reqs[p].doc.votes[1].candidate = "c2"
    /\ VotesFor(reqs[p].doc.votes, "c1") = VotesFor(reqs[p].doc.votes, "c2")
    /\ reqs[p].doc.anonymousVotes # <<>>
    /\ reqs[p].doc.anonymousVotes[1].candidate = "c1"
    /\ reqs[p].ret[1].winnerId = "c2"

\* C10: calculateResults sets status = completed, results.winner,
\* results.published = true and results.publishedAt = now, and saves them,
\* exactly when the authenticated ledger is non-empty; with an empty ledger it
\* leaves the four fields as they were, in the document and in the store.
C10_CompletesIffWinner ==
  \A p \in Procs :
    LET r == reqs[p]
    IN  (r.ret # <<>> /\ ~(r.op = "publishResults" /\ r.pc = "save")) =>
          IF Len(r.doc.votes) > 0
            THEN /\ r.ret[1].winnerId # NoCandidate
                 /\ r.doc.status = "completed"
                 /\ r.doc.winner = r.ret[1].winnerId
                 /\ r.doc.published
                 /\ r.doc.publishedAt = r.t
                 /\ r.pc = "save" =>
                      /\ elections[r.eid].status = "completed"
                      /\ elections[r.eid].winner = r.ret[1].winnerId
                      /\ elections[r.eid].published
                      /\ elections[r.eid].publishedAt = r.t
            ELSE /\ r.ret[1].winnerId = NoCandidate
                 /\ r.doc.status = IF r.op = "updateElection" THEN r.base.status ELSE "completed"
                 /\ r.doc.winner = r.base.winner
                 /\ r.doc.published = r.base.published
                 /\ r.doc.publishedAt = r.base.publishedAt
                 /\ elections[r.eid].status = r.base.status
                 /\ elections[r.eid].winner = r.base.winner
                 /\ elections[r.eid].published = r.base.published
                 /\ elections[r.eid].publishedAt = r.base.publishedAt

\* updateElection completed an active election: the winner is stored.
C10_Witness ==
  \E p \in Procs :
    /\ reqs[p].op = "updateElection" /\ reqs[p].pc = "save"
    /\ reqs[p].ret # <<>>
    /\ Len(reqs[p].doc.votes) > 0
    /\ elections[reqs[p].eid].status = "completed"
    /\ elections[reqs[p].eid].winner # NoCandidate
    /\ elections[reqs[p].eid].published

\* C11: a publishResults that follows a successful publishResults of the same
\* election, with no other request in between, leaves status, results.winner
\* and results.published as they were and never moves results.publishedAt back.
C11_PublishTwice ==
  [][ ( /\ reqs[1].op = "publishResults"
        /\ last = Response("publishResults", "saved", <<"result_publish">>) )
      => LET e == reqs[1].eid
         IN  /\ elections'[e].status = elections[e].status
             /\ elections'[e].winner = elections[e].winner
             /\ elections'[e].published = elections[e].published
             /\ elections'[e].publishedAt >= elections[e].publishedAt ]_vars

\* The second publication in a row has saved the winner again.
C11_Witness ==
  /\ reqs[1].op = "publishResults" /\ reqs[1].pc = "save"
  /\ last = Response("publishResults", "saved", <<"result_publish">>)
  /\ reqs[1].ret # <<>> /\ reqs[1].ret[1].winnerId # NoCandidate
  /\ elections["e1"].winner = reqs[1].ret[1].winnerId
  /\ elections["e1"].publishedAt = reqs[1].t

\* A step in which process 1 takes a new submitPublicVote request.
PublicVoteArrives ==
  /\ started' = started + 1
  /\ \/ reqs'[1].op = "submitPublicVote"
     \/ reqs'[1].pc = "idle" /\ last'.op = "submitPublicVote"

\* C12: toggleQRAccess flips qrCode.isEnabled and changes nothing else of the
\* election (token, status, both ledgers); a submitPublicVote with the
\* election's token that arrives while isEnabled is false is rejected as an
\* invalid link with no change to the store, and one that arrives while it is
\* true (so also after a second toggle, the token being the same) is not.
C12_ToggleOnlyEnables ==
  [][ /\ ( reqs[1].op = "toggleQRAccess" /\ reqs[1].pc = "save" /\ reqs'[1].pc = "idle" )
         => elections' = [elections EXCEPT ![reqs[1].eid].isEnabled = ~@]
      /\ ( PublicVoteArrives /\ ~elections["e1"].isEnabled )
         => /\ reqs'[1].pc = "idle"
            /\ last'.result = "invalidLink"
            /\ elections' = elections
      /\ ( PublicVoteArrives /\ elections["e1"].isEnabled /\ reqs'[1].pc = "idle" )
         => last'.result # "invalidLink"
      /\ ~( reqs[1].op = "toggleQRAccess" /\ reqs[1].pc = "save" )
         => elections'["e1"].isEnabled = elections["e1"].isEnabled ]_vars

\* After a toggle that disabled the link and a toggle that enabled it again,
\* a vote with the unchanged token got past the link lookup.
C12_Witness ==
  /\ last = Response("toggleQRAccess", "enabled", <<>>)
  /\ reqs[1].op = "submitPublicVote" /\ reqs[1].pc = "findCandidate"
  /\ elections["e1"].accessToken = "tok1"
  /\ elections["e1"].isEnabled

\* C13: once set, the access token of an election never changes, and every
\* generateElectionQR request, also when two of them interleave, answers with
\* the token that is stored.
C13_TokenSetOnce ==
  [][ /\ \A e \in DOMAIN elections :
           ( elections[e].accessToken # NoToken /\ e \in DOMAIN elections' )
           => elections'[e].accessToken = elections[e].accessToken
      /\ \A p \in Procs :
           ( /\ reqs[p].op = "generateElectionQR" /\ reqs[p].pc = "saveData"
             /\ reqs'[p].pc = "idle" /\ reqs[p].eid \in DOMAIN elections' )
           => last'.result = elections'[reqs[p].eid].accessToken ]_vars

\* C14: isVotingAllowed() is true exactly when the status is active, the clock
\* is inside [startDate, endDate], anonymous voting is allowed, and there is
\* no time slot or some active slot contains the clock; a submitPublicVote is
\* rejected with no change to the store when it is false and is not rejected
\* by the time check when it is true; every stored time slot has
\* startTime < endTime.
VotingAllowedSpec(d, t) ==
  /\ d.status = "active"
  /\ d.startDate <= t /\ t <= d.endDate
  /\ d.allowAnonymousVoting
  /\ \/ d.votingTimeSlots = <<>>
     \/ \E i \in 1..Len(d.votingTimeSlots) :
          /\ d.votingTimeSlots[i].isActive
          /\ d.votingTimeSlots[i].startTime <= t
          /\ t <= d.votingTimeSlots[i].endTime

C14_VotingAllowed ==
  [][ /\ isVotingAllowed(elections["e1"], now) <=> VotingAllowedSpec(elections["e1"], now)
      /\ ( PublicVoteArrives /\ elections["e1"].isEnabled
           /\ ~VotingAllowedSpec(elections["e1"], now) )
         => /\ reqs'[1].pc = "idle"
            /\ last'.result = "notAvailable"
            /\ elections' = elections
      /\ ( PublicVoteArrives /\ VotingAllowedSpec(elections["e1"], now)
           /\ reqs'[1].pc = "idle" )
         => last'.result # "notAvailable"
      /\ \A i \in 1..Len(elections'["e1"].votingTimeSlots) :
           LET slot == elections'["e1"].votingTimeSlots[i]
           IN  slot.startTime # NoDate /\ slot.startTime < slot.endTime ]_vars

\* A vote before the only slot was refused, and a vote at the slot's start
\* time got past the time check.
C14_Witness ==
  /\ last = Response("submitPublicVote", "notAvailable", <<>>)
  /\ reqs[1].op = "submitPublicVote" /\ reqs[1].pc = "findCandidate"
  /\ Len(elections["e1"].votingTimeSlots) = 1
  /\ elections["e1"].votingTimeSlots[1].startTime = now
  /\ now > 1

\* C15: there is at most one Candidate record per (student, election), and no
\* election lists two candidacies of one student, also when addCandidate
\* requests for the same pair interleave; an addCandidate that reaches its
\* duplicate check or its insert while the pair exists is rejected and leaves
\* the Candidate records and the elections unchanged.
NoDoubleCandidacy(cands, els) ==
  /\ \A c1 \in DOMAIN cands, c2 \in DOMAIN cands :
       c1 # c2 => ~( cands[c1].student = cands[c2].student
                     /\ cands[c1].election = cands[c2].election )
  /\ \A e \in DOMAIN els :
       \A i \in 1..Len(els[e].candidates), j \in 1..Len(els[e].candidates) :
         ( i # j /\ els[e].candidates[i] \in DOMAIN cands
                 /\ els[e].candidates[j] \in DOMAIN cands )
         => cands[els[e].candidates[i]].student # cands[els[e].candidates[j]].student

C15_OneCandidacyPerStudent ==
  [][ /\ NoDoubleCandidacy(candidateDocs, elections)
      /\ NoDoubleCandidacy(candidateDocs', elections')
      /\ \A p \in Procs :
           ( /\ reqs[p].op = "addCandidate"
             /\ reqs[p].pc \in {"findExisting", "saveCandidate"}
             /\ reqs'[p] # reqs[p]
             /\ ExistingCandidate(reqs[p].student, reqs[p].eid) )
           => /\ reqs'[p].pc = "idle"
              /\ last'.op = "addCandidate"
              /\ last'.result \in {"alreadyCandidate", "duplicateKey"}
              /\ candidateDocs' = candidateDocs
              /\ elections' = elections ]_vars

\* Of two interleaved addCandidate requests for student s3, one stored the
\* candidacy and the other was refused by the unique index.
C15_Witness ==
  /\ last = Response("addCandidate", "duplicateKey", <<>>)
  /\ Cardinality({c \in DOMAIN candidateDocs :
                    candidateDocs[c].student = "s3" /\ candidateDocs[c].election = "e1"}) = 1

\* C16: removeCandidate goes ahead only for a pending election; for an
\* active, completed or cancelled one it rejects, and it changes the
\* election's candidates and the Candidate records only while the stored
\* status is pending.
C16_RemoveOnlyPending ==
  [][ \A p \in Procs :
        /\ ( reqs[p].pc = "idle" /\ reqs'[p].op = "removeCandidate" )
           => elections[reqs'[p].eid].status = "pending"
        /\ ( /\ reqs[p].op = "removeCandidate" /\ reqs'[p] # reqs[p]
             /\ reqs[p].eid \in DOMAIN elections
             /\ (candidateDocs' # candidateDocs \/ elections' # elections) )
           => elections[reqs[p].eid].status = "pending" ]_vars

\* C17: deleteElection removes an election only when its status is not
\* active, and no Candidate record ever references an election that is not
\* stored, also when addCandidate interleaves with the deletion.
C17_DeleteCascades ==
  [][ /\ \A e \in DOMAIN elections :
           e \notin DOMAIN elections' => elections[e].status # "active"
      /\ \A c \in DOMAIN candidateDocs' :
           candidateDocs'[c].election \in DOMAIN elections' ]_vars

\* C18: deleteClass removes the class exactly when no user has it as class
\* and no election references it; with a user of the class it is rejected
\* with the students error, otherwise with an election of the class with the
\* elections error, and a rejection leaves classes, users and elections
\* unchanged.
C18_DeleteClass ==
  [][ /\ ( reqs[1].op = "deleteClass" /\ reqs'[1].pc = "idle" )
         => LET k == reqs[1].cls
                hasUser == \E u \in DOMAIN users : users[u].cls = k
                hasElection == \E e \in DOMAIN elections : elections[e].cls = k
            IN  /\ users' = users /\ elections' = elections
                /\ IF hasUser
                     THEN last'.result = "hasStudents" /\ classes' = classes
                   ELSE IF hasElection
                     THEN last'.result = "hasElections" /\ classes' = classes
                   ELSE /\ last'.result = "deleted"
                        /\ DOMAIN classes' = DOMAIN classes \ {k}
      /\ ~( reqs[1].op = "deleteClass" /\ reqs'[1].pc = "idle" ) => classes' = classes ]_vars

\* Class k2, which no user and no election referred to, was deleted.
C18_Witness ==
  /\ last = Response("deleteClass", "deleted", <<"admin_action">>)
  /\ "k2" \notin DOMAIN classes
  /\ "e2" \notin DOMAIN elections

\* C19: deleteUser removes no user that an entry of a votes ledger or a
\* Candidate record refers to, so every votes[].student and every
\* Candidate.student is a stored user.
C19_ReferencedUsersStay ==
  /\ \A e \in DOMAIN elections :
       \A i \in 1..Len(elections[e].votes) : elections[e].votes[i].student \in DOMAIN users
  /\ \A c \in DOMAIN candidateDocs : candidateDocs[c].student \in DOMAIN users

\* C20: the audit entries written while a vote request is handled (the
\* middleware's and castVote's) are the same whichever candidate of the
\* election the request names.
VoteAuditTrail(r, c) ==
  logActivity("vote_cast", "POST", r.eid, <<c>>)
    \o createLogDetails("vote_cast", <<r.eid, r.doc.title>>)

C20_AuditHidesCandidate ==
  [][ \A p \in Procs :
        ( reqs[p].op = "castVote" /\ reqs[p].pc = "save" /\ reqs'[p].pc = "idle" )
        => \A c \in CandidateIds :
             CandidateOfElection(c, reqs[p].eid) => last'.logged = VoteAuditTrail(reqs[p], c) ]_vars

\* The results with which a handler reports that it changed the store.
SuccessResults ==
  { "voted", "saved", "created", "added", "removed", "deleted", "enabled", "disabled" }

\* C21: every request that changed the store and reported success wrote at
\* least one audit entry before its response (the QR operations
\* toggleQRAccess and addVotingTimeSlot and the public vote included).
C21_MutationsAreLogged ==
  last.result \in SuccessResults => last.logged # <<>>

\* C22: a request whose save has written its change reports success whether
\* or not its audit entry could be written; in particular a submitPublicVote
\* that appended its anonymous vote answers that the vote was recorded.
C22_AuditFailureIsSwallowed ==
  [][ \A p \in Procs :
        ( /\ reqs[p].op \in {"submitPublicVote", "castVote"}
          /\ reqs[p].pc = "save" /\ reqs'[p].pc = "idle"
          /\ elections' # elections )
        => last'.result = "voted" ]_vars

\* C23: no election holds both an authenticated vote of a student and an
\* anonymous vote with that student's roll number, whatever the order of
\* castVote and submitPublicVote.
C23_OneVoteAcrossPaths ==
  \A e \in DOMAIN elections, s \in Students :
    ~( /\ \E i \in 1..Len(elections[e].votes) : elections[e].votes[i].student = s
       /\ \E i \in 1..Len(elections[e].anonymousVotes) :
            elections[e].anonymousVotes[i].rollNumber = RollNumberOf(s) )

\* C24: no two users have the same email, and no two students of one class
\* have the same roll number, also when registrations interleave and when
\* the admin edits a user.
UniqueEmails ==
  \A u \in DOMAIN users, w \in DOMAIN users : u # w => users[u].email # users[w].email

UniqueRollNumbers ==
  \A u \in DOMAIN users, w \in DOMAIN users :
    ( /\ u # w
      /\ users[u].role = "student" /\ users[w].role = "student"
      /\ users[u].rollNumber # ""
      /\ users[u].cls = users[w].cls )
    => users[u].rollNumber # users[w].rollNumber

C24_UniqueEmailAndRoll == UniqueEmails /\ UniqueRollNumbers

\* Process 1 took a new request for handler op and went on with it / refused it.
Accepted(op) == started' = started + 1 /\ reqs'[1].op = op
Rejected(op) == started' = started + 1 /\ reqs'[1].pc = "idle" /\ last'.op = op

\* Token was issued to user u as a token of this kind less than lifetime
\* hours before t, no later token of the kind was issued to u, and no
\* request has used it.
Usable(kind, token, u, lifetime, t) ==
  /\ \E i \in appended :
       /\ i.event = "issued" /\ i.kind = kind /\ i.token = token /\ i.user = u
       /\ t - i.at < lifetime
       /\ \A j \in appended :
            (j.event = "issued" /\ j.kind = kind /\ j.user = u) => j.n <= i.n
  /\ \A j \in appended : ~(j.event = "used" /\ j.token = token)

\* C25: verifyEmail accepts a token only within 24 hours of its issue, only
\* once, and not after resendVerificationEmail issued a newer one;
\* resetPassword accepts a token only within 1 hour of its issue and only
\* once; a rejected request changes no user, and users change only in a save.
C25_TokensExpireAndAreSingleUse ==
  [][ /\ Accepted("verifyEmail")
         => Usable("verification", reqs'[1].token, reqs'[1].student, VerificationLifetime, now)
      /\ Accepted("resetPassword")
         => Usable("reset", reqs'[1].token, reqs'[1].student, ResetLifetime, now)
      /\ (Rejected("verifyEmail") \/ Rejected("resetPassword")) => users' = users
      /\ users' # users => reqs[1].pc = "save" /\ reqs'[1].pc = "idle" ]_vars

\* After a resend in the last hour of the first token, the old token was
\* rejected and the new one is accepted.
C25_Witness ==
  /\ reqs[1].op = "verifyEmail" /\ reqs[1].pc = "save" /\ reqs[1].token = "tokA"
  /\ last = Response("verifyEmail", "invalidToken", <<>>)
  /\ users["u1"].verificationToken = "tokA"
  /\ now = 23

\* C26: an updateElection request that finds the election completed changes
\* none of its title, description, dates, status and results, whatever the
\* request carries.
C26_CompletedIsFrozen ==
  [][ ( reqs[1].op = "updateElection" /\ reqs[1].base.status = "completed" )
      => \A f \in {"title", "description", "startDate", "endDate", "status",
                   "winner", "published", "publishedAt"} :
           elections'["e1"][f] = elections["e1"][f] ]_vars

\* Sequence a is an initial part of sequence b.
IsPrefix(a, b) == Len(a) <= Len(b) /\ SubSeq(b, 1, Len(a)) = a

\* C27: while an election is stored, every step leaves the entries its two
\* ledgers hold where they are and as they are (new entries come after
\* them); a step that stores the status cancelled leaves both ledgers as
\* they were.
C27_LedgersAppendOnly ==
  [][ \A e \in DOMAIN elections :
        e \in DOMAIN elections' =>
          /\ IsPrefix(elections[e].votes, elections'[e].votes)
          /\ IsPrefix(elections[e].anonymousVotes, elections'[e].anonymousVotes)
          /\ ( elections'[e].status = "cancelled" /\ elections[e].status # "cancelled" )
             => /\ elections'[e].votes = elections[e].votes
                /\ elections'[e].anonymousVotes = elections[e].anonymousVotes ]_vars

\* The election was cancelled after a second vote was written while it was
\* active, and both ledgers hold all their entries.
C27_Witness ==
  /\ last.op \in {"updateElection", "updateElectionStatus"} /\ last.result = "saved"
  /\ elections["e1"].status = "cancelled"
  /\ elections["e1"].votes = << [student |-> "s1", candidate |-> "c1"],
                                [student |-> "s2", candidate |-> "c1"] >>
  /\ elections["e1"].anonymousVotes = << [rollNumber |-> "r1", candidate |-> "c2"] >>
  /\ \E a \in appended : a.ledger = "votes" /\ a.status = "active"

\* Every entry of the ledger is in the ledger after the step.
Stays(ledger, ledgerAfter) ==
  \A i \in 1..Len(ledger) : \E j \in 1..Len(ledgerAfter) : ledgerAfter[j] = ledger[i]

\* C30: the save of a castVote that answers with success, and the save of a
\* submitPublicVote, write the request's entry to the stored ledger, and
\* every entry of a stored ledger is in it after every later step, also the
\* saves of requests that loaded the election before the entry was written.
C30_AcceptedVotesStay ==
  [][ /\ \A p \in Procs :
           /\ ( reqs[p].op = "castVote" /\ reqs[p].pc = "save" /\ reqs'[p].pc = "idle"
                /\ last'.result = "voted" )
              => Stays(<<[student |-> reqs[p].user, candidate |-> reqs[p].cand]>>,
                       elections'[reqs[p].eid].votes)
           /\ ( reqs[p].op = "submitPublicVote" /\ reqs[p].pc = "save"
                /\ reqs'[p].pc = "idle" )
              => Stays(<<[rollNumber |-> reqs[p].roll, candidate |-> reqs[p].cand]>>,
                       elections'[reqs[p].eid].anonymousVotes)
      /\ \A e \in DOMAIN elections :
           e \in DOMAIN elections' =>
             /\ Stays(elections[e].votes, elections'[e].votes)
             /\ Stays(elections[e].anonymousVotes, elections'[e].anonymousVotes) ]_vars

\* The vote of s2 was accepted and stored while another request, which had
\* loaded the election before the vote was written, has its save ahead.
C30_Witness ==
  /\ last.op = "castVote" /\ last.result = "voted"
  /\ \E i \in 1..Len(elections["e1"].votes) : elections["e1"].votes[i].student = "s2"
  /\ \E q \in Procs :
       /\ reqs[q].op \in {"toggleQRAccess", "addVotingTimeSlot", "addCandidate",
                          "updateElection", "updateElectionStatus", "submitPublicVote"}
       /\ reqs[q].pc \in {"save", "saveElection"}
       /\ Len(reqs[q].base.votes) = 1

\* Candidate c is listed by election e and its Candidate record is stored.
CurrentCandidate(c, e) ==
  /\ c \in DOMAIN candidateDocs
  /\ candidateDocs[c].election = e
  /\ \E i \in 1..Len(elections[e].candidates) : elections[e].candidates[i] = c

\* C28: every candidate that an entry of an election's votes ledger names,
\* and the winner once it is set, is a current candidate of that election.
C28_VotesNameCurrentCandidates ==
  \A e \in DOMAIN elections :
    /\ \A i \in 1..Len(elections[e].votes) :
         CurrentCandidate(elections[e].votes[i].candidate, e)
    /\ elections[e].winner # NoCandidate => CurrentCandidate(elections[e].winner, e)

\* C29: an election whose results are marked published is completed.
C29_PublishedIsCompleted ==
  \A e \in DOMAIN elections : elections[e].published => elections[e].status = "completed"

====
